---- MODULE Spec2Model ----
(***************************************************************************)
(* Model of the mode/session dispatcher and the album coalescer of        *)
(* googlebot.py (Eniggman/GeminiTelegramBot).                              *)
(*                                                                         *)
(* One authorized user in a private chat.  python-telegram-bot runs the   *)
(* handlers of successive updates one after another (the application is   *)
(* built without concurrent_updates), so at most one handler is in flight; *)
(* the album flush tasks started with asyncio.create_task run whenever the *)
(* handler in flight is suspended in an await, or between two handlers.    *)
(* Consecutive awaits with no access to shared state between them are one  *)
(* suspension point.  Transport calls (reply_text, get_file, ...) are      *)
(* taken to succeed; collaborator (AI) calls succeed or fail.              *)
(*                                                                         *)
(* Strings of the source that are not ASCII are transliterated:           *)
(*   "vyhod" "pr" "perevod" "yu" "yutub" "p" "f" "k" "kartinka" "r"        *)
(*   "redaktirovat" "k flesh"                                              *)
(* A text is a record [tok, arg]: the stripped text is tok when arg = "",  *)
(* and tok, a space, arg otherwise; a text that starts with no command     *)
(* token has tok = "".                                                     *)
(***************************************************************************)
EXTENDS Integers, Sequences, FiniteSets, TLC

(* ----------------------------- bounds --------------------------------- *)
\* inbound updates in one behaviour of Spec
MaxEvents == 3
\* inbound updates in one behaviour of SpecAlbum
MaxAlbumEvents == 4
\* seconds the clock may advance
MaxElapsed == 200
\* inbound updates in one behaviour of SpecSession
MaxSessionEvents == 4
\* seconds the clock may advance in SpecSession: beyond both 300 s timeouts
MaxSessionElapsed == 400
\* inbound updates in one behaviour of SpecShorthand
MaxShorthandEvents == 3

(* ------------------------ program constants --------------------------- *)
MEMORY_TIMEOUT == 300
PHOTO_BUTTON_TIMEOUT == 180
IMAGE_CONTEXT_TIMEOUT == 300
MAX_ALBUM_PHOTOS == 10
\* time.time() at start-up: any value above every timeout
StartTime == 1000
\* a pause between PHOTO_BUTTON_TIMEOUT and MEMORY_TIMEOUT
TickLong == 200
\* a pause that, taken three times, ends exactly on the 300 s timeouts
TickShort == 100

Groups == {"g1", "g2"}

VARIABLES
    user_data,       \* context.user_data of the user
    pending_albums,  \* module-level dict: media_group_id -> album record
    tasks,           \* process_album_delayed tasks in flight: id -> [group, pc, ...]
    pc,              \* position of the handler in flight, "idle" when none
    loc,             \* local variables of the handler in flight
    buttons,         \* messages of the chat that still show the photo buttons
    chats_created,   \* number of gemini chats created so far (names the handles)
    now,             \* time.time()
    nextId,          \* message id of the next inbound update
    last,            \* observation: the last handler step taken
    frags,           \* observation: fragments whose handler ran, in order, each
                     \* with the mode of the session when it was stored
    deliveries,      \* observation: albums taken by a flush, in order
    scheduled,       \* observation: flush tasks created so far, per group
    call,            \* the helper function applied last: its arguments and result
    allowed_users    \* the allow-list of user ids

programVars == <<user_data, pending_albums, tasks, pc, loc, buttons, chats_created,
                 now, nextId, last, frags, deliveries, scheduled, allowed_users>>

vars == <<programVars, call>>

(* ------------------------- values and inputs -------------------------- *)
NoTask == [photos |-> <<>>, message_id |-> 0, timestamp |-> 0]
NoImage == [photo_bytes |-> 0, timestamp |-> 0]
NoChat == 0

Txt(tok, arg) == [tok |-> tok, arg |-> arg]

\* An inbound text: the text and whether it replies to a message with a photo
Msg(tok, arg, reply) == [t |-> Txt(tok, arg), reply |-> reply]

TextInputs ==
    { Msg("exit", "", FALSE), Msg("translate", "", FALSE),
      Msg("translate", "hello", FALSE), Msg("youtube", "", FALSE),
      Msg("pro", "", FALSE), Msg(".", "", FALSE), Msg("k", "", FALSE),
      Msg("k", "cat", FALSE), Msg("edit", "", FALSE), Msg("", "hello", FALSE),
      Msg("", "hello", TRUE), Msg(".", "", TRUE) }

CaptionInputs == { Txt("", ""), Txt("r", ""), Txt("r", "make it blue") }

AlbumTextInputs == { Msg("edit", "", FALSE), Msg("translate", "", FALSE) }

AlbumCaptionInputs == { Txt("", ""), Txt("r", "") }

NoLoc == [via |-> "", branch |-> "", caption |-> Txt("", ""), group |-> "",
          msg |-> 0, photos |-> <<>>, image |-> NoImage]

NoLast == [act |-> "init", ok |-> TRUE, step |-> 0, pre_mode |-> "none",
           pre_task |-> FALSE, exit |-> FALSE, cmd |-> FALSE, reply |-> FALSE,
           via |-> "", branch |-> "", text |-> Txt("", ""), pre_image |-> FALSE,
           logged |-> <<>>, button |-> 0]

NoCall == [fn |-> "none"]

(* ------------------------------- access ------------------------------- *)
\* The user whose updates and session the model follows, and the admin.
ADMIN_ID == "admin"
User == "user"

\* A check that lets everybody in.
check_access_admits_all(user_id) == TRUE

\* check_access, lines 393-394
check_access(user_id) == user_id = ADMIN_ID \/ user_id \in allowed_users

(* --------------------------- session store ---------------------------- *)
get_model_key(ud) == ud.model

\* A reset that forgets the pending photos as well.
reset_session_clears_task(ud, t, chat) ==
    [ud EXCEPT !.chat_session = chat,
               !.last_activity = t,
               !.mode = "none",
               !.active_image = NoImage,
               !.photo_task = NoTask]

\* reset_session: a new chat handle, last_activity, mode and active_image popped
reset_session(ud, t, chat) ==
    [ud EXCEPT !.chat_session = chat,
               !.last_activity = t,
               !.mode = "none",
               !.active_image = NoImage]

\* A lookup that creates the handle once and never lets it expire.
get_or_create_session_never_expires(ud, t, chat) ==
    IF ud.chat_session = NoChat
    THEN reset_session(ud, t, chat)
    ELSE [ud EXCEPT !.last_activity = t]

\* A lookup whose recreation replaces the handle and leaves the rest alone.
get_or_create_session_keeps_mode(ud, t, chat) ==
    IF ud.chat_session = NoChat \/ (t - ud.last_activity) > MEMORY_TIMEOUT
    THEN [ud EXCEPT !.chat_session = chat, !.last_activity = t]
    ELSE [ud EXCEPT !.last_activity = t]

\* get_or_create_session: reset when no handle or idle beyond MEMORY_TIMEOUT
get_or_create_session(ud, t, chat) ==
    IF ud.chat_session = NoChat \/ (t - ud.last_activity) > MEMORY_TIMEOUT
    THEN reset_session(ud, t, chat)
    ELSE [ud EXCEPT !.last_activity = t]

(* --------------------- handle_message: the helpers -------------------- *)
\* What a helper returns: whether it handled the message, the session it
\* leaves, and where the handler is suspended ("idle": it has returned).
Res(handled, ud, p, l) == [handled |-> handled, ud |-> ud, pc |-> p, loc |-> l]

IsBare(t, toks) == t.arg = "" /\ t.tok \in toks
HasArg(t, toks) == t.arg # "" /\ t.tok \in toks

EXIT_WORDS == {"vyhod", "exit", "quit", "stop"}
TRANSLATE_TOKENS == {"pr", "perevod", "translate"}
YOUTUBE_TOKENS == {"yu", "yutub", "youtube"}
PRO_TOKENS == {"p", "pro"}
IMAGE_TOKENS == {"k", "kartinka"}
EDIT_TOKENS == {"r", "redaktirovat", "edit"}

\* An edit-prompt step that leaves the mode set when the photos are gone.
process_photo_edit_prompt_keeps_mode(ud, t) ==
    IF ud.mode # "awaiting_edit_prompt"
    THEN Res(FALSE, ud, "idle", NoLoc)
    ELSE IF ud.photo_task = NoTask
    THEN Res(TRUE, ud, "idle", NoLoc)
    ELSE Res(TRUE, ud, "edit_prompt_call",
             [NoLoc EXCEPT !.photos = ud.photo_task.photos,
                           !.msg = ud.photo_task.message_id])

process_photo_edit_prompt(ud, t) ==
    IF ud.mode # "awaiting_edit_prompt"
    THEN Res(FALSE, ud, "idle", NoLoc)
    ELSE IF ud.photo_task = NoTask
    THEN Res(TRUE, [ud EXCEPT !.mode = "none"], "idle", NoLoc)
    ELSE Res(TRUE, ud, "edit_prompt_call",
             [NoLoc EXCEPT !.photos = ud.photo_task.photos,
                           !.msg = ud.photo_task.message_id])

\* An exit step that consumes the keyword when no mode is set.
process_exit_commands_consumes(ud, t) ==
    IF ~IsBare(t, EXIT_WORDS)
    THEN Res(FALSE, ud, "idle", NoLoc)
    ELSE Res(TRUE, [ud EXCEPT !.mode = "none"], "idle", NoLoc)

\* An exit step that drops the pending photos with the mode.
process_exit_commands_drops_task(ud, t) ==
    IF ~IsBare(t, EXIT_WORDS)
    THEN Res(FALSE, ud, "idle", NoLoc)
    ELSE IF ud.mode = "none"
    THEN Res(FALSE, ud, "idle", NoLoc)
    ELSE Res(TRUE, [ud EXCEPT !.mode = "none", !.photo_task = NoTask], "idle", NoLoc)

process_exit_commands(ud, t) ==
    IF ~IsBare(t, EXIT_WORDS)
    THEN Res(FALSE, ud, "idle", NoLoc)
    ELSE IF ud.mode = "none"
    THEN Res(FALSE, ud, "idle", NoLoc)
    ELSE Res(TRUE, [ud EXCEPT !.mode = "none"], "idle", NoLoc)

\* Shorthand commands whose translation with an argument also enters the mode.
process_fast_commands_arg_sets_mode(ud, t, tm, chat) ==
    IF IsBare(t, TRANSLATE_TOKENS)
    THEN Res(TRUE, [ud EXCEPT !.mode = "translate"], "idle", NoLoc)
    ELSE IF HasArg(t, TRANSLATE_TOKENS)
    THEN Res(TRUE, [ud EXCEPT !.mode = "translate"], "translate_call",
             [NoLoc EXCEPT !.via = "cmd"])
    ELSE IF IsBare(t, YOUTUBE_TOKENS)
    THEN Res(TRUE, [ud EXCEPT !.mode = "youtube_mode"], "idle", NoLoc)
    ELSE IF HasArg(t, YOUTUBE_TOKENS)
    THEN Res(TRUE, ud, "youtube_call", [NoLoc EXCEPT !.via = "cmd"])
    ELSE IF IsBare(t, PRO_TOKENS)
    THEN Res(TRUE, reset_session([ud EXCEPT !.model = "pro"], tm, chat), "idle", NoLoc)
    ELSE IF IsBare(t, {"f"})
    THEN Res(TRUE, reset_session([ud EXCEPT !.model = "flash"], tm, chat), "idle", NoLoc)
    ELSE IF IsBare(t, {"."})
    THEN Res(TRUE, reset_session(ud, tm, chat), "idle", NoLoc)
    ELSE IF IsBare(t, IMAGE_TOKENS)
    THEN Res(TRUE, [ud EXCEPT !.mode = "image_gen"], "idle", NoLoc)
    ELSE IF t.tok = "k" /\ t.arg = "pro"
    THEN Res(TRUE, [ud EXCEPT !.image_model = "pro", !.mode = "image_gen"], "idle", NoLoc)
    ELSE IF t.tok = "k" /\ t.arg \in {"flesh", "flash"}
    THEN Res(TRUE, [ud EXCEPT !.image_model = "flash", !.mode = "image_gen"], "idle", NoLoc)
    ELSE IF HasArg(t, IMAGE_TOKENS)
    THEN Res(TRUE, ud, "image_gen_call", [NoLoc EXCEPT !.via = "cmd"])
    ELSE IF IsBare(t, EDIT_TOKENS)
    THEN Res(TRUE, [ud EXCEPT !.mode = "awaiting_edit_photo"], "idle", NoLoc)
    ELSE Res(FALSE, ud, "idle", NoLoc)

process_fast_commands(ud, t, tm, chat) ==
    IF IsBare(t, TRANSLATE_TOKENS)
    THEN Res(TRUE, [ud EXCEPT !.mode = "translate"], "idle", NoLoc)
    ELSE IF HasArg(t, TRANSLATE_TOKENS)
    THEN Res(TRUE, ud, "translate_call", [NoLoc EXCEPT !.via = "cmd"])
    ELSE IF IsBare(t, YOUTUBE_TOKENS)
    THEN Res(TRUE, [ud EXCEPT !.mode = "youtube_mode"], "idle", NoLoc)
    ELSE IF HasArg(t, YOUTUBE_TOKENS)
    THEN Res(TRUE, ud, "youtube_call", [NoLoc EXCEPT !.via = "cmd"])
    ELSE IF IsBare(t, PRO_TOKENS)
    THEN Res(TRUE, reset_session([ud EXCEPT !.model = "pro"], tm, chat), "idle", NoLoc)
    ELSE IF IsBare(t, {"f"})
    THEN Res(TRUE, reset_session([ud EXCEPT !.model = "flash"], tm, chat), "idle", NoLoc)
    ELSE IF IsBare(t, {"."})
    THEN Res(TRUE, reset_session(ud, tm, chat), "idle", NoLoc)
    ELSE IF IsBare(t, IMAGE_TOKENS)
    THEN Res(TRUE, [ud EXCEPT !.mode = "image_gen"], "idle", NoLoc)
    ELSE IF t.tok = "k" /\ t.arg = "pro"
    THEN Res(TRUE, [ud EXCEPT !.image_model = "pro", !.mode = "image_gen"], "idle", NoLoc)
    ELSE IF t.tok = "k" /\ t.arg \in {"flesh", "flash"}
    THEN Res(TRUE, [ud EXCEPT !.image_model = "flash", !.mode = "image_gen"], "idle", NoLoc)
    ELSE IF HasArg(t, IMAGE_TOKENS)
    THEN Res(TRUE, ud, "image_gen_call", [NoLoc EXCEPT !.via = "cmd"])
    ELSE IF IsBare(t, EDIT_TOKENS)
    THEN Res(TRUE, [ud EXCEPT !.mode = "awaiting_edit_photo"], "idle", NoLoc)
    ELSE Res(FALSE, ud, "idle", NoLoc)

\* A reply-to-photo step that consumes the mode like a one-shot mode.
process_reply_to_photo_pops_mode(ud, t, reply) ==
    IF ~reply
    THEN Res(FALSE, ud, "idle", NoLoc)
    ELSE Res(TRUE, [ud EXCEPT !.mode = "none"], "reply_photo_call", NoLoc)

process_reply_to_photo(ud, t, reply) ==
    IF ~reply
    THEN Res(FALSE, ud, "idle", NoLoc)
    ELSE Res(TRUE, ud, "reply_photo_call", NoLoc)

\* Mode branches that leave image_gen set while the image is generated.
mode_or_chat_keeps_image_gen(ud, t, tm) ==
    IF ud.mode = "image_gen"
    THEN Res(TRUE, ud, "image_gen_call", [NoLoc EXCEPT !.via = "mode"])
    ELSE IF ud.mode = "youtube_mode"
    THEN Res(TRUE, [ud EXCEPT !.mode = "none"], "youtube_call",
             [NoLoc EXCEPT !.via = "mode"])
    ELSE IF ud.mode = "translate"
    THEN Res(TRUE, ud, "translate_mode_call", [NoLoc EXCEPT !.via = "mode"])
    ELSE IF ud.active_image # NoImage
            /\ (tm - ud.active_image.timestamp) > IMAGE_CONTEXT_TIMEOUT
    THEN Res(FALSE, [ud EXCEPT !.active_image = NoImage], "chat_thinking", NoLoc)
    ELSE Res(FALSE, ud, "chat_thinking", [NoLoc EXCEPT !.image = ud.active_image])

\* lines 2426-2451: the mode branches, then the start of the ordinary turn
mode_or_chat(ud, t, tm) ==
    IF ud.mode = "image_gen"
    THEN Res(TRUE, [ud EXCEPT !.mode = "none"], "image_gen_call",
             [NoLoc EXCEPT !.via = "mode"])
    ELSE IF ud.mode = "youtube_mode"
    THEN Res(TRUE, [ud EXCEPT !.mode = "none"], "youtube_call",
             [NoLoc EXCEPT !.via = "mode"])
    ELSE IF ud.mode = "translate"
    THEN Res(TRUE, ud, "translate_mode_call", [NoLoc EXCEPT !.via = "mode"])
    ELSE IF ud.active_image # NoImage
            /\ (tm - ud.active_image.timestamp) > IMAGE_CONTEXT_TIMEOUT
    THEN Res(FALSE, [ud EXCEPT !.active_image = NoImage], "chat_thinking", NoLoc)
    ELSE Res(FALSE, ud, "chat_thinking", [NoLoc EXCEPT !.image = ud.active_image])

Stepped(n, r) == [step |-> n, ud |-> r.ud, pc |-> r.pc, loc |-> r.loc]

\* A dispatcher that tries the exit keywords before the edit prompt.
handle_message_exit_first(ud, t, reply, tm, chat) ==
    LET r1 == process_photo_edit_prompt(ud, t)
        r2 == process_exit_commands(ud, t)
        r3 == process_fast_commands(ud, t, tm, chat)
        r4 == process_reply_to_photo(ud, t, reply)
        r5 == mode_or_chat(ud, t, tm)
    IN  IF r2.handled THEN Stepped(2, r2)
        ELSE IF r1.handled THEN Stepped(1, r1)
        ELSE IF r3.handled THEN Stepped(3, r3)
        ELSE IF r4.handled THEN Stepped(4, r4)
        ELSE IF r5.handled THEN Stepped(5, r5)
        ELSE Stepped(6, r5)

\* A dispatcher that tries the shorthand commands before the edit prompt.
handle_message_shorthand_first(ud, t, reply, tm, chat) ==
    LET r1 == process_photo_edit_prompt(ud, t)
        r2 == process_exit_commands(ud, t)
        r3 == process_fast_commands(ud, t, tm, chat)
        r4 == process_reply_to_photo(ud, t, reply)
        r5 == mode_or_chat(ud, t, tm)
    IN  IF r3.handled THEN Stepped(3, r3)
        ELSE IF r1.handled THEN Stepped(1, r1)
        ELSE IF r2.handled THEN Stepped(2, r2)
        ELSE IF r4.handled THEN Stepped(4, r4)
        ELSE IF r5.handled THEN Stepped(5, r5)
        ELSE Stepped(6, r5)

\* The dispatcher: the first helper that returns True ends the handler.
handle_message(ud, t, reply, tm, chat) ==
    LET r1 == process_photo_edit_prompt(ud, t)
        r2 == process_exit_commands(ud, t)
        r3 == process_fast_commands(ud, t, tm, chat)
        r4 == process_reply_to_photo(ud, t, reply)
        r5 == mode_or_chat(ud, t, tm)
    IN  IF r1.handled THEN Stepped(1, r1)
        ELSE IF r2.handled THEN Stepped(2, r2)
        ELSE IF r3.handled THEN Stepped(3, r3)
        ELSE IF r4.handled THEN Stepped(4, r4)
        ELSE IF r5.handled THEN Stepped(5, r5)
        ELSE Stepped(6, r5)

Init ==
    /\ user_data = [chat_session |-> NoChat, last_activity |-> 0,
                    model |-> "flash", image_model |-> "pro", mode |-> "none",
                    photo_task |-> NoTask, active_image |-> NoImage]
    /\ pending_albums = <<>>
    /\ tasks = <<>>
    /\ pc = "idle"
    /\ loc = NoLoc
    /\ buttons = {}
    /\ chats_created = 0
    /\ now = StartTime
    /\ nextId = 1
    /\ last = NoLast
    /\ frags = <<>>
    /\ deliveries = <<>>
    /\ scheduled = [g \in Groups |-> 0]
    /\ call = NoCall
    /\ allowed_users = {User}

\* The classes of text the resolution order of handle_message speaks of.
IsExitKeyword(t) == t \in {Txt(w, "") : w \in EXIT_WORDS}

ShorthandTexts ==
    {Txt(w, a) : w \in TRANSLATE_TOKENS \cup YOUTUBE_TOKENS, a \in {"", "hello", "url"}}
    \cup {Txt(w, "") : w \in PRO_TOKENS \cup {"f", "."} \cup EDIT_TOKENS}
    \cup {Txt(w, a) : w \in IMAGE_TOKENS, a \in {"", "pro", "flesh", "flash", "cat"}}

IsShorthand(t) == t \in ShorthandTexts

albumVars == <<pending_albums, tasks, frags, deliveries, scheduled>>

\* the handle a step created, if any, is chats_created + 1
Created(ud2) == IF ud2.chat_session = chats_created + 1
                THEN chats_created + 1 ELSE chats_created

\* The error type a failing step passes to log_error, "" when it logs nothing
\* (create_summary returns its failure as the text of the summary).
error_type(act) ==
    CASE act \in {"translate_call", "translate_mode_done"} -> "TRANSLATE"
      [] act = "image_gen_call" -> "IMAGE_GEN"
      [] act = "reply_photo_call" -> "IMAGE_ANALYZE"
      [] act = "photo_edit_call" -> "IMAGE_EDIT"
      [] act = "chat_call" -> "API"
      [] act = "edit_prompt_done" -> "IMAGE_EDIT_BTN"
      [] act = "photo_translate_done" -> "IMAGE_TRANSLATE_EDIT"
      [] act = "photo_ocr_done" -> "IMAGE_TRANSLATE"
      [] act = "analyze_done" -> "BTN_ANALYZE"
      [] act = "voice_recognized" -> "VOICE"
      [] act = "doc_call" -> "DOC_ANALYZE"
      [] OTHER -> ""

Done(act, ok) ==
    [last EXCEPT !.act = act, !.ok = ok,
                 !.logged = IF ok \/ error_type(act) = "" THEN <<>>
                            ELSE <<error_type(act)>>]

(* ------------------------------ text ---------------------------------- *)
TextMessageOf(inputs, max) ==
    \E m \in inputs :
        /\ pc = "idle"
        /\ check_access(User)
        /\ nextId <= max
        /\ LET r == handle_message(user_data, m.t, m.reply, now, chats_created + 1)
           IN  /\ user_data' = r.ud
               /\ pc' = r.pc
               /\ loc' = r.loc
               /\ chats_created' = Created(r.ud)
               /\ last' = [NoLast EXCEPT !.act = "handle_message",
                                         !.step = r.step,
                                         !.pre_mode = user_data.mode,
                                         !.pre_task = (user_data.photo_task # NoTask),
                                         !.exit = IsExitKeyword(m.t),
                                         !.cmd = IsShorthand(m.t),
                                         !.reply = m.reply,
                                         !.via = r.loc.via,
                                         !.text = m.t,
                                         !.pre_image = (user_data.active_image # NoImage)]
        /\ nextId' = nextId + 1
        /\ UNCHANGED <<call, allowed_users, buttons, now, albumVars>>

\* _process_photo_edit_prompt after edit_image: lines 1979-2006
edit_prompt_done(ud, ok) ==
    IF ok
    THEN [ud EXCEPT !.mode = "none", !.photo_task = NoTask]
    ELSE [ud EXCEPT !.mode = "none"]

EditPromptDone ==
    \E ok \in BOOLEAN :
        /\ pc = "edit_prompt_call"
        /\ user_data' = edit_prompt_done(user_data, ok)
        /\ pc' = "idle"
        /\ loc' = NoLoc
        /\ last' = Done("edit_prompt_done", ok)
        /\ UNCHANGED <<call, allowed_users, buttons, chats_created, now, nextId, albumVars>>

\* A translation that never pops the mode.
translation_mode_keeps(ud, ok) == ud

\* _process_translation_mode after the call: lines 2308-2313
translation_mode_done(ud, ok) ==
    IF ok THEN [ud EXCEPT !.mode = "none"] ELSE ud

TranslateModeDone ==
    \E ok \in BOOLEAN :
        /\ pc = "translate_mode_call"
        /\ user_data' = translation_mode_done(user_data, ok)
        /\ pc' = "idle"
        /\ loc' = NoLoc
        /\ last' = Done("translate_mode_done", ok)
        /\ UNCHANGED <<call, allowed_users, buttons, chats_created, now, nextId, albumVars>>

\* Calls whose completion writes nothing to the session: the shorthand
\* translation, the YouTube summary, the image generation, the reply-to-photo
\* analysis and the edit of a captioned photo.
NoWriteCalls == {"translate_call", "youtube_call", "image_gen_call",
                 "reply_photo_call", "photo_edit_call", "chat_call", "doc_call"}

\* A failure handler that also ends the mode.
call_done_failure_clears_mode(ud, ok) ==
    IF ok THEN ud ELSE [ud EXCEPT !.mode = "none"]

call_done(ud, ok) == ud

CallDone ==
    \E ok \in BOOLEAN :
        /\ pc \in NoWriteCalls
        /\ user_data' = call_done(user_data, ok)
        /\ pc' = "idle"
        /\ loc' = NoLoc
        /\ last' = Done(pc, ok)
        /\ UNCHANGED <<call, allowed_users, buttons, chats_created, now, nextId, albumVars>>

\* A chat turn that refreshes the conversation handle even with an image.
chat_send_refreshes_session(ud, image, tm, chat) ==
    get_or_create_session(ud, tm, chat)

\* A chat turn that restarts the clock of the image it uses.
chat_send_refreshes_image(ud, image, tm, chat) ==
    IF image # NoImage
    THEN [ud EXCEPT !.active_image = [image EXCEPT !.timestamp = tm]]
    ELSE get_or_create_session(ud, tm, chat)

\* handle_message lines 2453-2474, after the "thinking" message was sent
chat_send(ud, image, tm, chat) ==
    IF image # NoImage THEN ud ELSE get_or_create_session(ud, tm, chat)

ChatSend ==
    /\ pc = "chat_thinking"
    /\ user_data' = chat_send(user_data, loc.image, now, chats_created + 1)
    /\ chats_created' = Created(user_data')
    /\ pc' = "chat_call"
    /\ last' = Done("chat_send", TRUE)
    /\ UNCHANGED <<call, allowed_users, loc, buttons, now, nextId, albumVars>>

(* ------------------------------ photos -------------------------------- *)
\* caption_lower.startswith('r ') or == 'r' / 'redaktirovat'
is_edit_caption(c) == c.tok \in {"r", "redaktirovat"}

\* handle_photo, single photo: which branch the handler takes (lines 1496-1643)
photo_branch(mode, c) ==
    IF mode = "translate" THEN "translate"
    ELSE IF mode = "awaiting_edit_photo" THEN "await_edit"
    ELSE IF ~is_edit_caption(c) THEN "menu"
    ELSE IF c.arg = "" THEN "edit_noprompt"
    ELSE "edit_prompt"

\* A flush that looks at the caption only, as if no mode had been set.
album_branch_by_caption(mode, c) ==
    IF ~is_edit_caption(c) THEN "menu"
    ELSE IF c.arg = "" THEN "edit_noprompt"
    ELSE "edit_prompt"

\* process_album_delayed: which branch the flush takes (lines 1734-1832)
album_branch(mode, c) ==
    IF mode = "awaiting_edit_photo" THEN "await_edit"
    ELSE IF ~is_edit_caption(c) THEN "menu"
    ELSE IF c.arg = "" THEN "edit_noprompt"
    ELSE "edit_prompt"

NewTask(photos, msg, tm) == [photos |-> photos, message_id |-> msg, timestamp |-> tm]

\* A store that sets the mode of the edit branches and forgets the photos.
store_photos_mode_only(ud, branch, photos, msg, tm) ==
    IF branch \in {"await_edit", "edit_noprompt"}
    THEN [ud EXCEPT !.mode = "awaiting_edit_prompt"]
    ELSE IF branch = "menu"
    THEN [ud EXCEPT !.photo_task = NewTask(photos, msg, tm)]
    ELSE ud

\* A store that keeps the task already in the slot.
store_photos_keeps_task(ud, branch, photos, msg, tm) ==
    IF branch \in {"await_edit", "edit_noprompt"}
    THEN [ud EXCEPT !.photo_task = IF @ = NoTask THEN NewTask(photos, msg, tm) ELSE @,
                    !.mode = "awaiting_edit_prompt"]
    ELSE IF branch = "menu"
    THEN [ud EXCEPT !.photo_task = IF @ = NoTask THEN NewTask(photos, msg, tm) ELSE @]
    ELSE ud

\* the session writes of a branch that stores the photos
store_photos(ud, branch, photos, msg, tm) ==
    IF branch \in {"await_edit", "edit_noprompt"}
    THEN [ud EXCEPT !.photo_task = NewTask(photos, msg, tm),
                    !.mode = "awaiting_edit_prompt"]
    ELSE IF branch = "menu"
    THEN [ud EXCEPT !.photo_task = NewTask(photos, msg, tm)]
    ELSE ud

PhotoMessageOf(captions, max) ==
    \E c \in captions :
        /\ pc = "idle"
        /\ check_access(User)
        /\ nextId <= max
        /\ LET b == photo_branch(user_data.mode, c)
           IN  /\ pc' = IF b = "translate" THEN "photo_translate_call"
                        ELSE IF b = "edit_prompt" THEN "photo_edit_call"
                        ELSE "photo_dl"
               /\ loc' = [NoLoc EXCEPT !.branch = b, !.msg = nextId,
                                       !.photos = <<nextId>>]
               /\ last' = [NoLast EXCEPT !.act = "handle_photo",
                                         !.pre_mode = user_data.mode,
                                         !.pre_task = (user_data.photo_task # NoTask),
                                         !.branch = b]
        /\ nextId' = nextId + 1
        /\ UNCHANGED <<call, allowed_users, user_data, buttons, chats_created, now, albumVars>>

\* lines 1570-1590, 1608-1632, 1646-1663: after the download
PhotoDownloaded ==
    /\ pc = "photo_dl"
    /\ user_data' = store_photos(user_data, loc.branch, loc.photos, loc.msg, now)
    /\ buttons' = IF loc.branch = "menu" THEN buttons \cup {loc.msg} ELSE buttons
    /\ pc' = "idle"
    /\ loc' = NoLoc
    /\ last' = Done("photo_stored", TRUE)
    /\ UNCHANGED <<call, allowed_users, chats_created, now, nextId, albumVars>>

\* lines 1524-1532: a failed in-place translation is logged and the handler
\* goes on to the OCR-and-translate call
after_photo_translate(ok) == IF ok THEN "idle" ELSE "photo_ocr_call"

\* A fallback that is issued again when it fails.
after_photo_ocr_again(ok) == IF ok THEN "idle" ELSE "photo_ocr_call"

\* lines 1548-1566: the handler ends whatever the fallback did
after_photo_ocr(ok) == "idle"

\* lines 1516-1523: the in-place translation; on failure the OCR fallback
PhotoTranslateDone ==
    \E ok \in BOOLEAN :
        /\ pc = "photo_translate_call"
        /\ user_data' = IF ok THEN [user_data EXCEPT !.mode = "none"] ELSE user_data
        /\ pc' = after_photo_translate(ok)
        /\ loc' = IF ok THEN NoLoc ELSE loc
        /\ last' = Done("photo_translate_done", ok)
        /\ UNCHANGED <<call, allowed_users, buttons, chats_created, now, nextId, albumVars>>

\* lines 1532-1567: the fallback returns, times out or raises: mode is popped
PhotoOcrDone ==
    \E ok \in BOOLEAN :
        /\ pc = "photo_ocr_call"
        /\ user_data' = [user_data EXCEPT !.mode = "none"]
        /\ pc' = after_photo_ocr(ok)
        /\ loc' = IF pc' = "idle" THEN NoLoc ELSE loc
        /\ last' = Done("photo_ocr_done", ok)
        /\ UNCHANGED <<call, allowed_users, buttons, chats_created, now, nextId, albumVars>>

(* ------------------------------ albums -------------------------------- *)
Put(f, k, v) == [x \in DOMAIN f \cup {k} |-> IF x = k THEN v ELSE f[x]]
Drop(f, k) == [x \in DOMAIN f \ {k} |-> f[x]]

NoCaption == Txt("", "")

\* A fragment write that replaces the photos collected so far.
add_fragment_overwrites(albums, g, photo, c, msg, tm) ==
    IF g \notin DOMAIN albums
    THEN Put(albums, g, [photos |-> <<photo>>, caption |-> c,
                         message_id |-> msg, timestamp |-> tm])
    ELSE Put(albums, g, [albums[g] EXCEPT !.photos = <<photo>>])

\* A fragment write that appends whatever the album already holds.
add_fragment_uncapped(albums, g, photo, c, msg, tm) ==
    IF g \notin DOMAIN albums
    THEN Put(albums, g, [photos |-> <<photo>>, caption |-> c,
                         message_id |-> msg, timestamp |-> tm])
    ELSE LET a == albums[g]
             a1 == [a EXCEPT !.photos = Append(@, photo)]
             a2 == IF a1.caption = NoCaption /\ c # NoCaption
                   THEN [a1 EXCEPT !.caption = c] ELSE a1
         IN  Put(albums, g, a2)

\* lines 1469-1491: the fragment's write to pending_albums
add_fragment(albums, g, photo, c, msg, tm) ==
    IF g \notin DOMAIN albums
    THEN Put(albums, g, [photos |-> <<photo>>, caption |-> c,
                         message_id |-> msg, timestamp |-> tm])
    ELSE LET a == albums[g]
             a1 == IF Len(a.photos) < MAX_ALBUM_PHOTOS
                   THEN [a EXCEPT !.photos = Append(@, photo)] ELSE a
             a2 == IF a1.caption = NoCaption /\ c # NoCaption
                   THEN [a1 EXCEPT !.caption = c] ELSE a1
         IN  Put(albums, g, a2)

\* line 1482: create_task, only by the fragment that created the record
schedules_flush(albums, g) == g \notin DOMAIN albums

FragmentMessageOf(groups, captions, max) ==
    \E g \in groups, c \in captions :
        /\ pc = "idle"
        /\ check_access(User)
        /\ nextId <= max
        /\ pc' = "frag_dl"
        /\ loc' = [NoLoc EXCEPT !.group = g, !.caption = c, !.msg = nextId,
                                !.photos = <<nextId>>]
        /\ last' = [NoLast EXCEPT !.act = "handle_photo_fragment",
                                  !.pre_mode = user_data.mode,
                                  !.pre_task = (user_data.photo_task # NoTask)]
        /\ nextId' = nextId + 1
        /\ UNCHANGED <<call, allowed_users, user_data, buttons, chats_created, now, albumVars>>

FragmentDownloaded ==
    /\ pc = "frag_dl"
    /\ pending_albums' = add_fragment(pending_albums, loc.group, loc.msg,
                                      loc.caption, loc.msg, now)
    /\ IF schedules_flush(pending_albums, loc.group)
       THEN /\ tasks' = Put(tasks, loc.msg, [group |-> loc.group, pc |-> "sleep"])
            /\ scheduled' = [scheduled EXCEPT ![loc.group] = @ + 1]
       ELSE UNCHANGED <<tasks, scheduled>>
    /\ frags' = Append(frags, [group |-> loc.group, id |-> loc.msg,
                                mode |-> user_data.mode])
    /\ pc' = "idle"
    /\ loc' = NoLoc
    /\ last' = Done("fragment_stored", TRUE)
    /\ UNCHANGED <<call, allowed_users, user_data, buttons, chats_created, now, nextId, deliveries>>

\* process_album_delayed after the sleep: lines 1720-1847
flush_takes(albums, g) == g \in DOMAIN albums

\* A flush that reads the album and leaves it in the map.
flush_keeps(albums, g) == albums

\* line 1723: pending_albums.pop(media_group_id)
flush_pop(albums, g) == Drop(albums, g)

\* A flush that asks for an edit prompt even when it finds no album.
flush_missing_sets_mode(ud) == [ud EXCEPT !.mode = "awaiting_edit_prompt"]

\* lines 1720-1721: no album under the id, the task returns
flush_missing(ud) == ud

FlushWakeOf(id) ==
        /\ id \in DOMAIN tasks
        /\ tasks[id].pc = "sleep"
        /\ LET g == tasks[id].group
           IN  IF ~flush_takes(pending_albums, g)
               THEN /\ tasks' = Drop(tasks, id)
                    /\ user_data' = flush_missing(user_data)
                    /\ UNCHANGED <<pending_albums, buttons, deliveries>>
               ELSE LET a == pending_albums[g]
                        b == album_branch(user_data.mode, a.caption)
                    IN  /\ pending_albums' = flush_pop(pending_albums, g)
                        /\ user_data' = store_photos(user_data, b, a.photos,
                                                     a.message_id, now)
                        /\ buttons' = IF b = "menu"
                                      THEN buttons \cup {a.message_id} ELSE buttons
                        /\ tasks' = IF b = "edit_prompt"
                                    THEN [tasks EXCEPT ![id].pc = "edit_call"]
                                    ELSE Drop(tasks, id)
                        /\ deliveries' = Append(deliveries,
                               [group |-> g, photos |-> a.photos, at |-> Len(frags),
                                mode |-> user_data.mode, caption |-> a.caption,
                                branch |-> b])
        /\ UNCHANGED <<call, allowed_users, pc, loc, chats_created, now, nextId, last, frags, scheduled>>

\* message ids, which also name the flush tasks
TaskIds == 1..(MaxEvents + MaxAlbumEvents)

FlushWake == \E id \in TaskIds : FlushWakeOf(id)

\* lines 1795-1824: the album edit returns or raises; no session write
FlushEditDone ==
    \E id \in DOMAIN tasks, ok \in BOOLEAN :
        /\ tasks[id].pc = "edit_call"
        /\ tasks' = Drop(tasks, id)
        /\ UNCHANGED <<call, allowed_users, user_data, pending_albums, pc, loc, buttons, chats_created,
                       now, nextId, last, frags, deliveries, scheduled>>

(* ------------------------------ buttons ------------------------------- *)
\* button_callback up to the first await after the checks: lines 2659-2741
button_press(ud, action, tm) ==
    IF ud.photo_task = NoTask THEN ud
    ELSE IF (tm - ud.photo_task.timestamp) > PHOTO_BUTTON_TIMEOUT
    THEN [ud EXCEPT !.photo_task = NoTask]
    ELSE IF action = "photo_edit"
    THEN [ud EXCEPT !.mode = "awaiting_edit_prompt"]
    ELSE ud

\* A button handler that counts a missing or expired task as an error.
button_logged_not_found(o) ==
    IF o \in {"missing", "expired"} THEN <<"BTN_EXPIRED">> ELSE <<>>

\* lines 2659-2741: what the handler passes to log_error before any call: nothing
button_logged(o) == <<>>

button_outcome(ud, action, tm) ==
    IF ud.photo_task = NoTask THEN "missing"
    ELSE IF (tm - ud.photo_task.timestamp) > PHOTO_BUTTON_TIMEOUT THEN "expired"
    ELSE action

ButtonPressOf(max) ==
    \E m \in buttons, action \in {"photo_analyze", "photo_edit"} :
        /\ pc = "idle"
        /\ check_access(User)
        /\ nextId <= max
        /\ LET o == button_outcome(user_data, action, now)
           IN  /\ user_data' = button_press(user_data, action, now)
               /\ pc' = IF o = "photo_analyze" THEN "analyze_call" ELSE "idle"
               /\ loc' = IF o = "photo_analyze"
                         THEN [NoLoc EXCEPT !.photos = user_data.photo_task.photos,
                                            !.msg = user_data.photo_task.message_id]
                         ELSE NoLoc
               /\ last' = [NoLast EXCEPT !.act = "button_callback",
                                         !.pre_mode = user_data.mode,
                                         !.pre_task = (user_data.photo_task # NoTask),
                                         !.branch = o,
                                         !.button = m,
                                         !.logged = button_logged(o)]
        /\ buttons' = buttons \ {m}
        /\ nextId' = nextId + 1
        /\ UNCHANGED <<call, allowed_users, chats_created, now, albumVars>>

\* An analysis whose success also ends the mode that is set.
analyze_done_clears_mode(ud, photos, ok, tm) ==
    IF ok
    THEN [ud EXCEPT !.active_image = [photo_bytes |-> photos[1], timestamp |-> tm],
                    !.photo_task = NoTask,
                    !.mode = "none"]
    ELSE ud

\* lines 2705-2729: after the analysis call
analyze_done(ud, photos, ok, tm) ==
    IF ok
    THEN [ud EXCEPT !.active_image = [photo_bytes |-> photos[1], timestamp |-> tm],
                    !.photo_task = NoTask]
    ELSE ud

AnalyzeDone ==
    \E ok \in BOOLEAN :
        /\ pc = "analyze_call"
        /\ user_data' = analyze_done(user_data, loc.photos, ok, now)
        /\ pc' = "idle"
        /\ loc' = NoLoc
        /\ last' = Done("analyze_done", ok)
        /\ UNCHANGED <<call, allowed_users, buttons, chats_created, now, nextId, albumVars>>

\* Time passes between two updates, once the flush tasks (1.5 s) have run.
Tick ==
    \E d \in {TickLong} :
        /\ pc = "idle"
        /\ DOMAIN tasks = {}
        /\ now + d <= StartTime + MaxElapsed
        /\ now' = now + d
        /\ UNCHANGED <<call, allowed_users, user_data, pending_albums, tasks, pc, loc, buttons,
                       chats_created, nextId, last, frags, deliveries, scheduled>>

TextMessage == TextMessageOf(TextInputs, MaxEvents)
PhotoMessage == PhotoMessageOf(CaptionInputs, MaxEvents)
FragmentMessage == FragmentMessageOf({"g1"}, CaptionInputs, MaxEvents)
ButtonPress == ButtonPressOf(MaxEvents)

Next ==
    \/ TextMessage
    \/ EditPromptDone
    \/ TranslateModeDone
    \/ CallDone
    \/ ChatSend
    \/ PhotoMessage
    \/ PhotoDownloaded
    \/ PhotoTranslateDone
    \/ PhotoOcrDone
    \/ FragmentMessage
    \/ FragmentDownloaded
    \/ FlushWake
    \/ FlushEditDone
    \/ ButtonPress
    \/ AnalyzeDone
    \/ Tick

Spec == Init /\ [][Next]_vars

(* The album coalescer alone, with the texts that change what a flush does. *)
AlbumText == TextMessageOf(AlbumTextInputs, MaxAlbumEvents)
AlbumFragment == FragmentMessageOf(Groups, AlbumCaptionInputs, MaxAlbumEvents)

NextAlbum ==
    \/ AlbumText
    \/ AlbumFragment
    \/ FragmentDownloaded
    \/ FlushWake

SpecAlbum == Init /\ [][NextAlbum]_vars

\* The fragments and the flush tasks alone.  asyncio.sleep returns: every
\* sleeping flush task is resumed.
NextFragments ==
    \/ AlbumFragment
    \/ FragmentDownloaded
    \/ FlushWake

FairAlbum == Init /\ [][NextFragments]_vars /\ \A id \in TaskIds : WF_vars(FlushWakeOf(id))

(* ---------------------- commands and voice messages ------------------- *)
\* start: lines 1069-1085, reset_session and the greeting
StartCommandOf(max) ==
    /\ pc = "idle"
    /\ check_access(User)
    /\ nextId <= max
    /\ user_data' = reset_session(user_data, now, chats_created + 1)
    /\ chats_created' = chats_created + 1
    /\ last' = [NoLast EXCEPT !.act = "start",
                              !.pre_mode = user_data.mode,
                              !.pre_task = (user_data.photo_task # NoTask),
                              !.pre_image = (user_data.active_image # NoImage)]
    /\ nextId' = nextId + 1
    /\ UNCHANGED <<call, allowed_users, pc, loc, buttons, now, albumVars>>

\* handle_voice up to the recognition call: lines 1359-1385
VoiceMessageOf(max) ==
    /\ pc = "idle"
    /\ check_access(User)
    /\ nextId <= max
    /\ pc' = "voice_call"
    /\ last' = [NoLast EXCEPT !.act = "handle_voice",
                              !.pre_mode = user_data.mode,
                              !.pre_task = (user_data.photo_task # NoTask),
                              !.pre_image = (user_data.active_image # NoImage)]
    /\ nextId' = nextId + 1
    /\ UNCHANGED <<call, allowed_users, user_data, loc, buttons, chats_created, now, albumVars>>

\* lines 1387-1400: the recognised text goes to the conversation handle; no
\* text, a timeout or an error end the handler
voice_recognized(ud, ok, tm, chat) ==
    IF ok THEN get_or_create_session(ud, tm, chat) ELSE ud

VoiceRecognized ==
    \E ok \in BOOLEAN :
        /\ pc = "voice_call"
        /\ user_data' = voice_recognized(user_data, ok, now, chats_created + 1)
        /\ chats_created' = Created(user_data')
        /\ pc' = IF ok THEN "chat_call" ELSE "idle"
        /\ last' = Done("voice_recognized", ok)
        /\ UNCHANGED <<call, allowed_users, loc, buttons, now, nextId, albumVars>>

(* The conversation handle, the active image and the photo task over time. *)
SessionTextInputs == { Msg("", "hello", FALSE), Msg("edit", "", FALSE) }

SessionText == TextMessageOf(SessionTextInputs, MaxSessionEvents)
SessionPhoto == PhotoMessageOf(AlbumCaptionInputs, MaxSessionEvents)
SessionButton == ButtonPressOf(MaxSessionEvents)
StartCommand == StartCommandOf(MaxSessionEvents)
VoiceMessage == VoiceMessageOf(MaxSessionEvents)

SessionTick ==
    \E d \in {TickShort, TickLong} :
        /\ pc = "idle"
        /\ DOMAIN tasks = {}
        /\ now + d <= StartTime + MaxSessionElapsed
        /\ now' = now + d
        /\ UNCHANGED <<call, allowed_users, user_data, pending_albums, tasks, pc, loc, buttons,
                       chats_created, nextId, last, frags, deliveries, scheduled>>

NextSession ==
    \/ SessionText
    \/ ChatSend
    \/ CallDone
    \/ EditPromptDone
    \/ SessionPhoto
    \/ PhotoDownloaded
    \/ SessionButton
    \/ AnalyzeDone
    \/ StartCommand
    \/ VoiceMessage
    \/ VoiceRecognized
    \/ SessionTick

SpecSession == Init /\ [][NextSession]_vars

(* The shorthand commands, bare and with an argument, in every mode. *)
ShorthandTextInputs ==
    { Msg("translate", "", FALSE), Msg("youtube", "", FALSE), Msg("k", "", FALSE),
      Msg("translate", "hello", FALSE), Msg("youtube", "url", FALSE),
      Msg("k", "cat", FALSE), Msg("k", "pro", FALSE), Msg("k", "flash", FALSE),
      Msg("kartinka", "pro", FALSE) }

ShorthandText == TextMessageOf(ShorthandTextInputs, MaxShorthandEvents)
ShorthandPhoto == PhotoMessageOf({Txt("r", "")}, MaxShorthandEvents)

NextShorthand ==
    \/ ShorthandText
    \/ CallDone
    \/ EditPromptDone
    \/ ShorthandPhoto
    \/ PhotoDownloaded

SpecShorthand == Init /\ [][NextShorthand]_vars

(* ======================= the claims, C1 to C10 ======================== *)
Mode == user_data.mode
PhotoTask == user_data.photo_task

\* the step of handle_message that takes a text message, and the steps that end
\* a collaborator call
Dispatched == pc = "idle" /\ nextId' = nextId + 1 /\ last'.act = "handle_message"
Returns(c) == pc = c /\ pc' = "idle"

\* The resolution order as the specification lists it.
ExpectedStep(l) ==
    IF l.pre_mode = "awaiting_edit_prompt" THEN 1
    ELSE IF l.exit /\ l.pre_mode # "none" THEN 2
    ELSE IF l.cmd THEN 3
    ELSE IF l.reply THEN 4
    ELSE IF l.pre_mode \in {"image_gen", "youtube_mode", "translate"} THEN 5
    ELSE 6

\* where the handler stands once the given step, and no later one, has run
StepPositions(n) ==
    CASE n = 1 -> {"idle", "edit_prompt_call"}
      [] n = 2 -> {"idle"}
      [] n = 3 -> {"idle", "translate_call", "youtube_call", "image_gen_call"}
      [] n = 4 -> {"reply_photo_call"}
      [] n = 5 -> {"image_gen_call", "youtube_call", "translate_mode_call"}
      [] OTHER -> {"chat_thinking"}

\* C1: handle_message resolves a text message by the first matching step of the
\* order edit prompt, exit keyword, shorthand, reply to photo, mode, chat; only
\* that step runs.
C1_ResolutionOrder ==
    /\ last.step # 0 => last.step = ExpectedStep(last)
    /\ last.act = "handle_message" =>
          /\ pc \in StepPositions(last.step)
          /\ (last.step = 3 => last.via # "mode")
          /\ (last.step = 5 => last.via = "mode")

\* an exit keyword sent while an edit prompt is awaited is taken as the prompt
C1_Witness ==
    /\ last.act = "handle_message"
    /\ last.pre_mode = "awaiting_edit_prompt"
    /\ last.pre_task
    /\ last.exit
    /\ last.step = 1
    /\ pc = "edit_prompt_call"

\* C2: when the edit started by an edit prompt has completed, mode and
\* pendingPhotoTask are both cleared, on success and on failure.
C2_EditClearsModeAndTask ==
    [][Returns("edit_prompt_call") =>
          user_data'.mode = "none" /\ user_data'.photo_task = NoTask]_vars

C4_OneShotModes ==
    /\ [][(Dispatched /\ last'.step = 5 /\ last'.pre_mode = "image_gen") =>
             (pc' = "image_gen_call" /\ user_data'.mode = "none")]_vars
    /\ [][(Dispatched /\ last'.step = 5 /\ last'.pre_mode = "youtube_mode") =>
             (pc' = "youtube_call" /\ user_data'.mode = "none")]_vars
    /\ [][((Returns("image_gen_call") \/ Returns("youtube_call")) /\ loc.via = "mode")
             => user_data'.mode = user_data.mode]_vars
    /\ []((pc \in {"image_gen_call", "youtube_call"} /\ loc.via = "mode")
             => Mode \notin {"image_gen", "youtube_mode"})

C4_Witness ==
    /\ last.act = "image_gen_call"
    /\ last.via = "mode"
    /\ last.pre_mode = "image_gen"
    /\ ~last.ok
    /\ pc = "idle"
    /\ Mode = "none"

\* C5 as claimed: mode = awaiting_edit_prompt implies a pending photo task.
C5_EditPromptHasTask == Mode = "awaiting_edit_prompt" => PhotoTask # NoTask

\* C5, amended: mode becomes awaiting_edit_prompt only with a pending photo task
\* present, and the implication is broken by two steps only: a button press that
\* finds the task older than 180 s, and a button-triggered analysis that succeeds.
C5_TaskLostOnlyByButtons ==
    /\ [][(Mode # "awaiting_edit_prompt" /\ user_data'.mode = "awaiting_edit_prompt")
             => user_data'.photo_task # NoTask]_vars
    /\ [][(C5_EditPromptHasTask /\ ~C5_EditPromptHasTask') =>
             \/ (Returns("analyze_call") /\ last'.ok)
             \/ (nextId' = nextId + 1 /\ last'.act = "button_callback"
                   /\ last'.branch = "expired")]_vars

C5_Witness ==
    /\ Mode = "awaiting_edit_prompt"
    /\ PhotoTask = NoTask
    /\ last.act = "analyze_done"
    /\ last.ok

\* C6: a fragment of a group whose buffer a flush has taken and removed is
\* dropped: no new buffer, no new flush, no change of the session.
Flushed(g) == \E k \in 1..Len(deliveries) : deliveries[k].group = g

C6_LateFragmentDropped ==
    [][(Returns("frag_dl") /\ Flushed(loc.group)
          /\ loc.group \notin DOMAIN pending_albums)
          => UNCHANGED <<pending_albums, tasks, user_data, scheduled>>]_vars

\* C7: the fragments a handler stored between two flushes of a group are what
\* the second of them delivers: all of them up to the cap, in arrival order,
\* none lost, none twice, none added to a buffer already taken.
Ids(fs) == [i \in 1..Len(fs) |-> fs[i].id]
FragIds(g, lo, hi) ==
    Ids(SelectSeq(SubSeq(frags, lo + 1, hi), LAMBDA f : f.group = g))
Capped(ps) == IF Len(ps) > MAX_ALBUM_PHOTOS THEN SubSeq(ps, 1, MAX_ALBUM_PHOTOS) ELSE ps
Max0(S) == IF S = {} THEN 0 ELSE CHOOSE x \in S : \A y \in S : y <= x
\* the number of fragments stored when the group was last flushed before
\* delivery k (all deliveries when k is past the end)
PrevAt(g, k) ==
    Max0({deliveries[j].at : j \in {i \in 1..Len(deliveries) :
                                       i < k /\ deliveries[i].group = g}})
Ascending(ps) == \A i, j \in 1..Len(ps) : i < j => ps[i] < ps[j]

C7_FlushDeliversBufferedFragments ==
    /\ \A k \in 1..Len(deliveries) :
          LET d == deliveries[k]
          IN  /\ d.photos = Capped(FragIds(d.group, PrevAt(d.group, k), d.at))
              /\ Ascending(d.photos)
    /\ \A g \in Groups :
          LET rest == FragIds(g, PrevAt(g, Len(deliveries) + 1), Len(frags))
          IN  IF g \in DOMAIN pending_albums
              THEN pending_albums[g].photos = Capped(rest)
              ELSE rest = <<>>
    /\ \A k1, k2 \in 1..Len(deliveries) :
          k1 # k2 => \A i \in 1..Len(deliveries[k1].photos),
                        j \in 1..Len(deliveries[k2].photos) :
                        deliveries[k1].photos[i] # deliveries[k2].photos[j]

C7_Witness ==
    \E k \in 1..Len(deliveries) :
        /\ Len(deliveries[k].photos) = 3
        /\ pc = "frag_dl"
        /\ loc.group = deliveries[k].group

\* C8: for each group id exactly one flush is ever scheduled.
C8_OneFlushPerGroup == \A g \in Groups : scheduled[g] <= 1

\* C9: a buffer leaves the map exactly when a flush takes it, it is taken once,
\* and under fair scheduling of the flush tasks no buffer stays in the map.
C9_BufferConsumedOnce ==
    /\ [][\A g \in Groups :
            (g \in DOMAIN pending_albums /\ g \notin DOMAIN pending_albums') =>
               /\ Len(deliveries') = Len(deliveries) + 1
               /\ deliveries'[Len(deliveries')].group = g
               /\ deliveries'[Len(deliveries')].photos = pending_albums[g].photos]_vars
    /\ [][Len(deliveries') > Len(deliveries) =>
            /\ deliveries'[Len(deliveries')].group \in DOMAIN pending_albums
            /\ deliveries'[Len(deliveries')].group \notin DOMAIN pending_albums']_vars
    /\ [](\A k1, k2 \in 1..Len(deliveries) :
            k1 # k2 => deliveries[k1].photos[1] # deliveries[k2].photos[1])
    /\ \A g \in Groups :
            (g \in DOMAIN pending_albums) ~> (g \notin DOMAIN pending_albums)

C9_Witness ==
    /\ Len(deliveries) = 2
    /\ deliveries[1].group = deliveries[2].group
    /\ pending_albums = <<>>

\* C10: a flush takes the branch, and so makes the session update, that
\* handle_photo takes for a single photo with the same caption in the same mode.
C10_FlushLikeSinglePhoto ==
    \A k \in 1..Len(deliveries) :
        deliveries[k].branch = photo_branch(deliveries[k].mode, deliveries[k].caption)

(* ======================= the claims, C11 to C20 ======================= *)
\* the step in which a flush takes a buffer, and the album it takes
FlushTakes == Len(deliveries') = Len(deliveries) + 1
Taken == deliveries'[Len(deliveries')]

\* C11: a flush acts on the mode of the session at the moment it runs, whatever
\* the mode was when the buffer was created, and it always takes the buffer:
\* in awaiting_edit_photo it stores the album and awaits the prompt, otherwise
\* it follows the caption and leaves a mode it does not set as it is.
C11_FlushFollowsCurrentMode ==
    /\ [][FlushTakes =>
             /\ Taken.mode = user_data.mode
             /\ IF user_data.mode = "awaiting_edit_photo"
                   \/ (is_edit_caption(Taken.caption) /\ Taken.caption.arg = "")
                THEN /\ user_data'.mode = "awaiting_edit_prompt"
                     /\ user_data'.photo_task.photos = Taken.photos
                ELSE IF ~is_edit_caption(Taken.caption)
                THEN /\ user_data'.mode = user_data.mode
                     /\ user_data'.photo_task.photos = Taken.photos
                ELSE user_data' = user_data]_vars
    /\ [][\A id \in TaskIds :
             (id \in DOMAIN tasks /\ tasks[id].pc = "sleep"
                /\ (id \notin DOMAIN tasks' \/ tasks'[id].pc # "sleep")
                /\ tasks[id].group \in DOMAIN pending_albums)
             => (FlushTakes /\ Taken.group = tasks[id].group)]_vars

\* a buffer created with no mode set is flushed after "edit" was sent
C11_Witness ==
    \E k \in 1..Len(deliveries), i \in 1..Len(frags) :
        /\ frags[i].id = deliveries[k].photos[1]
        /\ frags[i].mode = "none"
        /\ deliveries[k].mode = "awaiting_edit_photo"
        /\ deliveries[k].caption = NoCaption
        /\ Mode = "awaiting_edit_prompt"

\* the text of the message a dispatch step takes
Text == last'.text
ResetText == Txt(".", "")

C14_ExitClearsModeOnly ==
    [][(Dispatched /\ last'.exit /\ Mode \notin {"none", "awaiting_edit_prompt"}) =>
          /\ last'.step = 2
          /\ pc' = "idle"
          /\ user_data' = [user_data EXCEPT !.mode = "none"]
          /\ chats_created' = chats_created]_vars

\* "exit" in awaiting_edit_photo, with the photos of a menu still pending
C14_Witness ==
    /\ last.act = "handle_message"
    /\ last.exit
    /\ last.pre_mode = "awaiting_edit_photo"
    /\ last.pre_task
    /\ last.step = 2
    /\ pc = "idle"
    /\ Mode = "none"
    /\ PhotoTask # NoTask

\* C17: a text that replies to a message with a photo and that steps 1 to 3 do
\* not take starts an image analysis in every mode, and neither the dispatch nor
\* the end of the analysis, successful or failed, changes the session.
C17_ReplyToPhotoKeepsSession ==
    /\ [][(Dispatched /\ last'.reply /\ Mode # "awaiting_edit_prompt"
             /\ ~(last'.exit /\ Mode # "none") /\ ~last'.cmd) =>
             /\ last'.step = 4
             /\ pc' = "reply_photo_call"
             /\ user_data' = user_data
             /\ chats_created' = chats_created]_vars
    /\ [][Returns("reply_photo_call") =>
             (user_data' = user_data /\ chats_created' = chats_created)]_vars

\* a reply to a photo sent in image_gen mode: the analysis has failed and the
\* mode is still set
C17_Witness ==
    /\ last.act = "reply_photo_call"
    /\ ~last.ok
    /\ last.reply
    /\ last.step = 4
    /\ last.pre_mode = "image_gen"
    /\ Mode = "image_gen"
    /\ pc = "idle"

\* C15: a text dispatched in awaiting_edit_prompt with no pending photo task
\* clears the mode and ends the handler: no edit call, no retry, no later step,
\* no other change of the session.
C15_DataLostClearsMode ==
    [][(Dispatched /\ Mode = "awaiting_edit_prompt" /\ PhotoTask = NoTask) =>
          /\ last'.step = 1
          /\ pc' = "idle"
          /\ user_data' = [user_data EXCEPT !.mode = "none"]
          /\ chats_created' = chats_created]_vars

C15_Witness ==
    /\ last.act = "handle_message"
    /\ last.pre_mode = "awaiting_edit_prompt"
    /\ ~last.pre_task
    /\ last.step = 1
    /\ pc = "idle"
    /\ Mode = "none"

\* the step of the chat turn that sends the request, and the steps that call
\* get_or_create_session
ChatSends == pc = "chat_thinking" /\ pc' = "chat_call"
VoiceSends == pc = "voice_call" /\ pc' = "chat_call"
Fresh(image) == image # NoImage /\ (now - image.timestamp) <= 300
Expired(ud) == ud.chat_session = NoChat \/ (now - ud.last_activity) > 300
Recreated(ud) == [ud EXCEPT !.chat_session = chats_created + 1,
                            !.last_activity = now,
                            !.mode = "none",
                            !.active_image = NoImage]

\* C18: an ordinary chat turn with an active image of at most 300 s is a
\* one-shot call with the image that leaves the conversation handle and
\* lastActivity alone; with no active image, or one older than 300 s, which is
\* removed, the turn goes through the handle of get_or_create_session.
C18_ChatTurnImageOrHandle ==
    /\ [][(Dispatched /\ last'.step = 6) =>
             /\ pc' = "chat_thinking"
             /\ IF Fresh(user_data.active_image)
                THEN loc'.image = user_data.active_image /\ user_data' = user_data
                ELSE /\ loc'.image = NoImage
                     /\ user_data' = [user_data EXCEPT !.active_image = NoImage]]_vars
    /\ [][ChatSends =>
             IF loc.image # NoImage
             THEN user_data' = user_data /\ chats_created' = chats_created
             ELSE /\ user_data'.chat_session # NoChat
                  /\ user_data'.last_activity = now
                  /\ user_data'.chat_session =
                        (IF Expired(user_data) THEN chats_created + 1
                         ELSE user_data.chat_session)]_vars

\* a turn with an image while a handle exists: the handle and the time of its
\* last use are as they were
C18_Witness ==
    /\ last.act = "chat_send"
    /\ pc = "chat_call"
    /\ loc.image # NoImage
    /\ last.pre_image
    /\ user_data.chat_session = 1
    /\ user_data.last_activity < now

\* C19: get_or_create_session gives a new handle, distinct from every earlier
\* one, when there is none or lastActivity is more than 300 s back, and else
\* the existing handle with lastActivity set to the time of the call; its
\* callers, the chat turn and the voice handler, add no test of their own.
C19_GetOrCreateSession ==
    [][((ChatSends /\ loc.image = NoImage) \/ VoiceSends) =>
          IF Expired(user_data)
          THEN /\ user_data' = Recreated(user_data)
               /\ user_data'.chat_session \notin 0..chats_created
               /\ chats_created' = chats_created + 1
          ELSE /\ user_data' = [user_data EXCEPT !.last_activity = now]
               /\ chats_created' = chats_created]_vars

\* the second of two updates is a voice message that finds the first handle
\* expired and gets a second one
C19_Witness ==
    /\ last.act = "voice_recognized"
    /\ last.ok
    /\ nextId = 3
    /\ user_data.chat_session = 2
    /\ user_data.last_activity = now

\* C20: reset_session gives a new conversation handle, sets lastActivity to the
\* time of the call, unsets mode, removes activeImage and leaves the model
\* tiers and the pending photo task as they were.
C20_ResetSession ==
    [][(pc = "idle" /\ nextId' = nextId + 1 /\ last'.act = "start") =>
          /\ user_data' = Recreated(user_data)
          /\ user_data'.chat_session \notin 0..chats_created
          /\ user_data'.model = user_data.model
          /\ user_data'.image_model = user_data.image_model
          /\ user_data'.photo_task = user_data.photo_task]_vars

\* start with a mode, an active image and pending photos
C20_Witness ==
    /\ last.act = "start"
    /\ last.pre_mode = "awaiting_edit_prompt"
    /\ last.pre_task
    /\ last.pre_image
    /\ Mode = "none"
    /\ user_data.active_image = NoImage
    /\ PhotoTask # NoTask
    /\ user_data.chat_session = chats_created
    /\ user_data.last_activity = now

\* a translate, youtube or image token, a space and trailing content
WithArg(t) == HasArg(t, TRANSLATE_TOKENS \cup YOUTUBE_TOKENS \cup IMAGE_TOKENS)
CallOf(t) == IF t.tok \in TRANSLATE_TOKENS THEN "translate_call"
             ELSE IF t.tok \in YOUTUBE_TOKENS THEN "youtube_call"
             ELSE "image_gen_call"
IsTierWord(t) == t.tok = "k" /\ t.arg \in {"pro", "flesh", "flash"}

\* C16 as claimed: a shorthand token with trailing content acts at once on the
\* content and leaves the mode as it was.
C16_ShorthandWithArgActsAtOnce ==
    [][(Dispatched /\ WithArg(Text)) =>
          (pc' = CallOf(Text) /\ user_data'.mode = user_data.mode)]_vars

\* C16, amended: outside awaiting_edit_prompt, a shorthand token with trailing
\* content acts at once on the content and leaves the session as it was, but
\* for the short image token followed by a tier word, which selects the image
\* tier and enters image_gen with no call; in awaiting_edit_prompt the text is
\* taken by the edit-prompt step.
C16_ShorthandWithArgUnlessTierOrEditPrompt ==
    [][(Dispatched /\ WithArg(Text)) =>
          IF Mode = "awaiting_edit_prompt"
          THEN last'.step = 1 /\ pc' \in {"idle", "edit_prompt_call"}
          ELSE IF IsTierWord(Text)
          THEN /\ pc' = "idle"
               /\ user_data' = [user_data EXCEPT
                      !.mode = "image_gen",
                      !.image_model = (IF Text.arg = "pro" THEN "pro" ELSE "flash")]
          ELSE /\ last'.step = 3
               /\ pc' = CallOf(Text)
               /\ loc'.via = "cmd"
               /\ user_data' = user_data]_vars

\* "translate hello" sent in youtube mode has been translated, and the mode
\* is still set
C16_Witness ==
    /\ last.act = "translate_call"
    /\ last.text = Txt("translate", "hello")
    /\ last.pre_mode = "youtube_mode"
    /\ last.via = "cmd"
    /\ pc = "idle"
    /\ Mode = "youtube_mode"

(* ---------------------- the cap and the missing album ---------------- *)
\* bound: fragments of one album, enough to pass MAX_ALBUM_PHOTOS
MaxCapEvents == 12

CapFragment == FragmentMessageOf({"g1"}, {NoCaption}, MaxCapEvents)
CapFlushWake == \E id \in 1..MaxCapEvents : FlushWakeOf(id)

NextCap ==
    \/ CapFragment
    \/ FragmentDownloaded
    \/ CapFlushWake

SpecCap == Init /\ [][NextCap]_vars

\* bound: fragments and flush calls in the behaviours of the missing album
MaxFlushEvents == 4

\* process_album_delayed started for a group id, lines 1710-1718: the task
\* sleeps ALBUM_WAIT_TIME; the id may name an album of the map or none
ProcessAlbumDelayed ==
    \E g \in Groups :
        /\ nextId <= MaxFlushEvents
        /\ tasks' = Put(tasks, nextId, [group |-> g, pc |-> "sleep"])
        /\ scheduled' = [scheduled EXCEPT ![g] = @ + 1]
        /\ nextId' = nextId + 1
        /\ UNCHANGED <<call, allowed_users, user_data, pending_albums, pc, loc, buttons,
                       chats_created, now, last, frags, deliveries>>

MissingFragment == FragmentMessageOf(Groups, {NoCaption}, MaxFlushEvents)
MissingFlushWake == \E id \in 1..MaxFlushEvents : FlushWakeOf(id)

NextMissing ==
    \/ MissingFragment
    \/ FragmentDownloaded
    \/ ProcessAlbumDelayed
    \/ MissingFlushWake

SpecMissing == Init /\ [][NextMissing]_vars

(* ------------------------------ log_error ----------------------------- *)
NoStats == [errors_count |-> 0, last_errors |-> <<>>]

\* a bug: the overflowing buffer drops its newest entry, not its oldest
log_error_evicts_newest(stats, type) ==
    LET appended == Append(stats.last_errors, type)
    IN  [errors_count |-> stats.errors_count + 1,
         last_errors |-> IF Len(appended) > 10 THEN SubSeq(appended, 1, 10) ELSE appended]

\* lines 255-267: count the error, append it, keep the last ten
log_error(stats, type) ==
    LET appended == Append(stats.last_errors, type)
    IN  [errors_count |-> stats.errors_count + 1,
         last_errors |-> IF Len(appended) > 10 THEN Tail(appended) ELSE appended]

\* bot_stats after the log_error calls of one step
RECURSIVE log_errors(_, _)
log_errors(stats, types) ==
    IF types = <<>> THEN stats
    ELSE log_errors(log_error(stats, Head(types)), Tail(types))

\* A run of log_error calls from the bot_stats of a fresh process (lines
\* 246-252); `history` lists the error types in call order.
MaxLogCalls == 12
ErrorTypes == {"API", "VOICE"}

LogError ==
    /\ call.fn \in {"none", "log_error"}
    /\ LET stats == IF call = NoCall THEN NoStats ELSE call.stats
           history == IF call = NoCall THEN <<>> ELSE call.history
       IN  /\ Len(history) < MaxLogCalls
           /\ \E type \in ErrorTypes :
                 call' = [fn |-> "log_error", stats |-> log_error(stats, type),
                          history |-> Append(history, type)]
    /\ UNCHANGED programVars

NextErrors == LogError

SpecErrors == Init /\ [][NextErrors]_vars

(* ----------------------------- log_activity --------------------------- *)
ACTIVITY_LOG_MAX_ENTRIES == 500
KYIV_UTC_OFFSET == 7200
DAY_SECONDS == 86400

\* get_day_start, lines 308-312: midnight of the clock's day at UTC+2
get_day_start(clock) ==
    ((clock + KYIV_UTC_OFFSET) \div DAY_SECONDS) * DAY_SECONDS - KYIV_UTC_OFFSET

\* a bug: the full log drops its newest entries, not its oldest
log_activity_keeps_oldest(user_activity, entry, day_start) ==
    LET appended == Append(user_activity, entry)
        today == SelectSeq(appended, LAMBDA a : a.timestamp >= day_start)
    IN  IF Len(today) > ACTIVITY_LOG_MAX_ENTRIES
        THEN SubSeq(today, 1, ACTIVITY_LOG_MAX_ENTRIES)
        ELSE today

\* log_activity, lines 315-332: append the entry, drop what is older than
\* the day start, keep the last ACTIVITY_LOG_MAX_ENTRIES entries
log_activity(user_activity, entry, day_start) ==
    LET appended == Append(user_activity, entry)
        today == SelectSeq(appended, LAMBDA a : a.timestamp >= day_start)
    IN  IF Len(today) > ACTIVITY_LOG_MAX_ENTRIES
        THEN SubSeq(today, Len(today) - ACTIVITY_LOG_MAX_ENTRIES + 1, Len(today))
        ELSE today

\* A run of log_activity calls from the empty log of line 305.  The process
\* starts `delay` seconds into the clock, its calls come `step` seconds
\* apart, and `lag` seconds pass between the two clock reads of one call
\* (time.time() at line 318, datetime.now at line 310).
MaxActivityCalls == 505
ActivitySteps == {0, 100, 173, 400}
ActivityDelays == {0, 28000, 40000, 78199}
ActivityLags == {0, 1}

ActivityStart ==
    /\ call = NoCall
    /\ \E step \in ActivitySteps, delay \in ActivityDelays, lag \in ActivityLags :
          /\ call' = [fn |-> "log_activity", step |-> step, lag |-> lag, at |-> now + delay,
                      user_activity |-> <<>>, history |-> <<>>]
          /\ now' = now + delay
    /\ UNCHANGED <<user_data, pending_albums, tasks, pc, loc, buttons, chats_created,
                   nextId, last, frags, deliveries, scheduled, allowed_users>>

\* `history` lists every entry ever appended; `at` is the clock at the end
\* of the call
LogActivity ==
    /\ call.fn = "log_activity"
    /\ Len(call.history) < MaxActivityCalls
    /\ LET entry == [timestamp |-> now, details |-> Len(call.history) + 1]
       IN  call' = [call EXCEPT
                       !.user_activity = log_activity(call.user_activity, entry,
                                                      get_day_start(now + call.lag)),
                       !.history = Append(call.history, entry),
                       !.at = now + call.lag]
    /\ now' = now + call.lag + call.step
    /\ UNCHANGED <<user_data, pending_albums, tasks, pc, loc, buttons, chats_created,
                   nextId, last, frags, deliveries, scheduled, allowed_users>>

NextActivity ==
    \/ ActivityStart
    \/ LogActivity

SpecActivity == Init /\ [][NextActivity]_vars

(* ------------------- documents and the one-shot calls ----------------- *)
\* handle_document, lines 1851-1896: an unsupported format is answered at
\* once; otherwise the "analysing" message is sent and the file goes to the
\* collaborator (lines 1898-1914), with the caption or the default prompt.
DocumentMessageOf(max) ==
    \E supported \in BOOLEAN :
        /\ pc = "idle"
        /\ check_access(User)
        /\ nextId <= max
        /\ pc' = IF supported THEN "doc_call" ELSE "idle"
        /\ loc' = IF supported THEN [NoLoc EXCEPT !.msg = nextId] ELSE NoLoc
        /\ last' = [NoLast EXCEPT !.act = "handle_document",
                                  !.ok = supported,
                                  !.pre_mode = user_data.mode,
                                  !.pre_task = (user_data.photo_task # NoTask),
                                  !.pre_image = (user_data.active_image # NoImage)]
        /\ nextId' = nextId + 1
        /\ UNCHANGED <<call, allowed_users, user_data, buttons, chats_created, now, albumVars>>

\* bound: inbound updates in the behaviours of the one-shot calls
MaxCallEvents == 3

CallTextInputs ==
    { Msg("translate", "", FALSE), Msg("translate", "hello", FALSE),
      Msg("youtube", "url", FALSE), Msg("k", "cat", FALSE),
      Msg("", "hello", FALSE), Msg("", "hello", TRUE) }

CallText == TextMessageOf(CallTextInputs, MaxCallEvents)
CallPhoto == PhotoMessageOf({Txt("", ""), Txt("r", "make it blue")}, MaxCallEvents)
DocumentMessage == DocumentMessageOf(MaxCallEvents)

NextCalls ==
    \/ CallText
    \/ TranslateModeDone
    \/ CallDone
    \/ ChatSend
    \/ CallPhoto
    \/ PhotoDownloaded
    \/ PhotoTranslateDone
    \/ PhotoOcrDone
    \/ DocumentMessage

SpecCalls == Init /\ [][NextCalls]_vars

(* --------------------- the allow-list and the handlers ---------------- *)
\* The model and mode commands: set_pro_model and set_flash_model (lines
\* 1251-1266), youtube_command (1269-1280), set_image_pro and set_image_flash
\* (1285-1310), each after its access check.
ModelCommands == {"1model", "2model", "youtube", "imagepro", "imageflash"}

command(ud, cmd, tm, chat) ==
    CASE cmd = "1model" -> reset_session([ud EXCEPT !.model = "pro"], tm, chat)
      [] cmd = "2model" -> reset_session([ud EXCEPT !.model = "flash"], tm, chat)
      [] cmd = "youtube" -> [ud EXCEPT !.mode = "youtube_mode"]
      [] cmd = "imagepro" -> [ud EXCEPT !.image_model = "pro", !.mode = "image_gen"]
      [] OTHER -> [ud EXCEPT !.image_model = "flash", !.mode = "image_gen"]

CommandOf(max) ==
    \E cmd \in ModelCommands :
        /\ pc = "idle"
        /\ check_access(User)
        /\ nextId <= max
        /\ user_data' = command(user_data, cmd, now, chats_created + 1)
        /\ chats_created' = Created(user_data')
        /\ last' = [NoLast EXCEPT !.act = "command", !.via = cmd,
                                  !.pre_mode = user_data.mode]
        /\ nextId' = nextId + 1
        /\ UNCHANGED <<call, allowed_users, pc, loc, buttons, now, albumVars>>

\* The first statements of every handler: a user who fails check_access gets
\* the refusal and the handler returns (lines 1071-1078, 1253-1254, 1262-1263,
\* 1272-1273, 1288-1289, 1302-1303, 1361-1362, 1453-1454, 1858-1859,
\* 2382-2385, 2655-2657).
Handlers == {"start", "command", "handle_voice", "handle_photo", "handle_document",
             "handle_message", "button_callback"}

DeniedOf(max) ==
    \E h \in Handlers :
        /\ pc = "idle"
        /\ ~check_access(User)
        /\ nextId <= max
        /\ last' = [NoLast EXCEPT !.act = h, !.branch = "denied",
                                  !.pre_mode = user_data.mode,
                                  !.pre_task = (user_data.photo_task # NoTask),
                                  !.pre_image = (user_data.active_image # NoImage)]
        /\ nextId' = nextId + 1
        /\ UNCHANGED <<call, allowed_users, user_data, pc, loc, buttons, chats_created,
                       now, albumVars>>

\* add_user and del_user, lines 1215-1244: the admin changes the allow-list
AdminCommand ==
    \E cmd \in {"add", "del"} :
        /\ pc = "idle"
        /\ allowed_users' = IF cmd = "add" THEN allowed_users \cup {User}
                            ELSE allowed_users \ {User}
        /\ allowed_users' # allowed_users
        /\ UNCHANGED <<call, user_data, pending_albums, tasks, pc, loc, buttons,
                       chats_created, now, nextId, last, frags, deliveries, scheduled>>

MaxAccessEvents == 3
AccessTextInputs == { Msg("", "hello", FALSE), Msg("edit", "", FALSE) }

AccessText == TextMessageOf(AccessTextInputs, MaxAccessEvents)
AccessPhoto == PhotoMessageOf(AlbumCaptionInputs, MaxAccessEvents)
AccessFragment == FragmentMessageOf({"g1"}, AlbumCaptionInputs, MaxAccessEvents)
AccessFlushWake == \E id \in 1..MaxAccessEvents : FlushWakeOf(id)
AccessButton == ButtonPressOf(MaxAccessEvents)
AccessStart == StartCommandOf(MaxAccessEvents)
AccessVoice == VoiceMessageOf(MaxAccessEvents)
AccessDocument == DocumentMessageOf(MaxAccessEvents)
AccessCommand == CommandOf(MaxAccessEvents)
AccessDenied == DeniedOf(MaxAccessEvents)

NextAccess ==
    \/ AccessText
    \/ EditPromptDone
    \/ CallDone
    \/ ChatSend
    \/ AccessPhoto
    \/ PhotoDownloaded
    \/ AccessFragment
    \/ FragmentDownloaded
    \/ AccessFlushWake
    \/ AccessButton
    \/ AnalyzeDone
    \/ AccessStart
    \/ AccessVoice
    \/ VoiceRecognized
    \/ AccessDocument
    \/ AccessCommand
    \/ AccessDenied
    \/ AdminCommand

SpecAccess == Init /\ [][NextAccess]_vars

(* --------------------------- send_with_retry -------------------------- *)
\* line 43
MAX_RETRIES == 2

\* What one chat.send_message attempt can do: a response with text, a
\* response without text, no response within TIMEOUT_MEDIUM, an exception
\* whose text holds 429, 503 or 500, an exception whose text holds none.
SendOutcomes == {"text", "empty", "timeout", "429", "503", "500", "error"}
TransientCodes == {"429", "503", "500"}

NewSend == [fn |-> "send_with_retry", outcomes |-> <<>>, waits |-> <<>>,
            status |-> "sending", result |-> ""]

Again(c, o, wait) == [c EXCEPT !.outcomes = Append(@, o), !.waits = Append(@, wait)]
Ends(c, o, status) ==
    [c EXCEPT !.outcomes = Append(@, o), !.status = status, !.result = o]

\* A loop body that hands an empty response back once the attempts are used up.
send_attempt_returns_empty(c, o, retries) ==
    LET attempt == Len(c.outcomes) IN
    CASE o = "text" -> Ends(c, o, "returned")
      [] o = "empty" ->
            IF attempt < retries THEN Again(c, o, 2) ELSE Ends(c, o, "returned")
      [] o = "timeout" ->
            IF attempt < retries THEN Again(c, o, 2) ELSE Ends(c, o, "raised")
      [] o \in TransientCodes ->
            IF attempt < retries
            THEN Again(c, o, (attempt + 1) * 3) ELSE Ends(c, o, "raised")
      [] OTHER -> Ends(c, o, "raised")

\* lines 716-747: one pass of the loop, attempt = number of attempts made before
send_attempt(c, o, retries) ==
    LET attempt == Len(c.outcomes) IN
    CASE o = "text" -> Ends(c, o, "returned")
      [] o = "empty" ->
            IF attempt < retries THEN Again(c, o, 2) ELSE Ends(c, o, "raised")
      [] o = "timeout" ->
            IF attempt < retries THEN Again(c, o, 2) ELSE Ends(c, o, "raised")
      [] o \in TransientCodes ->
            IF attempt < retries
            THEN Again(c, o, (attempt + 1) * 3) ELSE Ends(c, o, "raised")
      [] OTHER -> Ends(c, o, "raised")

SendWithRetry ==
    /\ call = NoCall
    /\ call' = NewSend
    /\ UNCHANGED programVars

SendAttempt ==
    \E o \in SendOutcomes :
        /\ call.fn = "send_with_retry"
        /\ call.status = "sending"
        /\ call' = send_attempt(call, o, MAX_RETRIES)
        /\ UNCHANGED programVars

NextRetry == SendWithRetry \/ SendAttempt
SpecRetry == Init /\ [][NextRetry]_vars

(* ----------------------------- split_message ------------------------- *)
\* A text is a sequence of characters; NL is the line feed.
NL == "\n"
Chars == {"a", "b", " ", NL}
Whitespace == {" ", NL}

\* bound: length of the texts given to split_message
MaxTextLen == 6
\* bound: largest max_length given to split_message (the smallest is 2)
MaxSplitLen == 3

Texts == UNION {[1..n -> Chars] : n \in 0..MaxTextLen}

StartsWith(s, sep) == Len(s) >= Len(sep) /\ SubSeq(s, 1, Len(sep)) = sep

\* str.split(sep): the pieces between the occurrences of sep, left to right
RECURSIVE SplitFrom(_, _, _)
SplitFrom(s, sep, piece) ==
    IF s = <<>> THEN <<piece>>
    ELSE IF StartsWith(s, sep)
    THEN <<piece>> \o SplitFrom(SubSeq(s, Len(sep) + 1, Len(s)), sep, <<>>)
    ELSE SplitFrom(Tail(s), sep, Append(piece, Head(s)))

Split(s, sep) == SplitFrom(s, sep, <<>>)

RECURSIVE LStrip(_)
LStrip(s) == IF s # <<>> /\ Head(s) \in Whitespace THEN LStrip(Tail(s)) ELSE s

RECURSIVE RStrip(_)
RStrip(s) ==
    IF s # <<>> /\ s[Len(s)] \in Whitespace
    THEN RStrip(SubSeq(s, 1, Len(s) - 1)) ELSE s

\* A strip that leaves the text as it is.
strip_keeps(s) == s

\* str.strip(): no white space at either end
strip(s) == RStrip(LStrip(s))

\* lines 666-667: line[i:i + max_length] for i in range(0, len(line), max_length)
RECURSIVE HardCut(_, _)
HardCut(line, max_length) ==
    IF line = <<>> THEN <<>>
    ELSE IF Len(line) <= max_length THEN <<line>>
    ELSE <<SubSeq(line, 1, max_length)>>
             \o HardCut(SubSeq(line, max_length + 1, Len(line)), max_length)

\* lines 661-662, 669-670, 674-675: parts.append(current_part.strip()), then
\* the new start
Flush(st, start) == [parts |-> Append(st.parts, strip(st.current)), current |-> start]

\* lines 665-672: one line of a paragraph longer than max_length
split_line(st, line, max_length) ==
    IF Len(line) > max_length
    THEN [st EXCEPT !.parts = @ \o HardCut(line, max_length)]
    ELSE IF Len(st.current) + Len(line) + 1 > max_length
    THEN Flush(st, line \o <<NL>>)
    ELSE [st EXCEPT !.current = @ \o line \o <<NL>>]

RECURSIVE split_lines(_, _, _)
split_lines(st, lines, max_length) ==
    IF lines = <<>> THEN st
    ELSE split_lines(split_line(st, Head(lines), max_length), Tail(lines), max_length)

\* lines 659-677: one paragraph
split_paragraph(st, paragraph, max_length) ==
    IF Len(paragraph) > max_length
    THEN split_lines(IF st.current # <<>> THEN Flush(st, <<>>) ELSE st,
                     Split(paragraph, <<NL>>), max_length)
    ELSE IF Len(st.current) + Len(paragraph) + 2 > max_length
    THEN Flush(st, paragraph \o <<NL, NL>>)
    ELSE [st EXCEPT !.current = @ \o paragraph \o <<NL, NL>>]

RECURSIVE split_paragraphs(_, _, _)
split_paragraphs(st, paragraphs, max_length) ==
    IF paragraphs = <<>> THEN st
    ELSE split_paragraphs(split_paragraph(st, Head(paragraphs), max_length),
                          Tail(paragraphs), max_length)

\* A split that strips a text even when it fits in one chunk.
split_message_strips_short(text, max_length) ==
    IF text = <<>> THEN << <<>> >>
    ELSE IF Len(text) <= max_length THEN <<strip(text)>>
    ELSE LET st == split_paragraphs([parts |-> <<>>, current |-> <<>>],
                                    Split(text, <<NL, NL>>), max_length)
             parts == IF strip(st.current) # <<>>
                      THEN Append(st.parts, strip(st.current)) ELSE st.parts
         IN  IF parts # <<>> THEN parts ELSE <<SubSeq(text, 1, max_length)>>

\* lines 647-682
split_message(text, max_length) ==
    IF text = <<>> THEN << <<>> >>
    ELSE IF Len(text) <= max_length THEN <<text>>
    ELSE LET st == split_paragraphs([parts |-> <<>>, current |-> <<>>],
                                    Split(text, <<NL, NL>>), max_length)
             parts == IF strip(st.current) # <<>>
                      THEN Append(st.parts, strip(st.current)) ELSE st.parts
         IN  IF parts # <<>> THEN parts ELSE <<SubSeq(text, 1, max_length)>>

SplitMessage ==
    /\ call = NoCall
    /\ \E text \in Texts, max_length \in 2..MaxSplitLen :
          call' = [fn |-> "split_message", text |-> text, max_length |-> max_length,
                   parts |-> split_message(text, max_length)]
    /\ UNCHANGED programVars

NextSplit == SplitMessage
SpecSplit == Init /\ [][NextSplit]_vars

(* ------------------------- format_for_telegram ------------------------ *)
\* A text is a sequence of characters.  The output is a sequence of tokens: the
\* characters copied from the input, the entities written by escape_html, the
\* placeholders of the tables, and the tags the formatter writes, each tag one
\* token.  The texts are made of the angle brackets, the letter a, the
\* backtick, the pipe, the square and round brackets and the line break.  With
\* them the steps 3 to 7 (lines 614-629: headers, bold, italic, strikethrough,
\* lists) find no match, since each needs a hash, an asterisk, an underscore,
\* a tilde or a hyphen, and the cells of a table hold no emphasis, separator
\* row or white space to normalise (lines 537-548).
\* the backtick, which a string of this module cannot hold
BQ == "bq"

\* bound: the pieces of a text
MaxPieces == 4
Pieces == { <<"<">>, <<">">>, <<"a">>, <<BQ>>, <<BQ, BQ, BQ>>, <<"|">>,
            <<"[">>, <<"]", "(">>, <<")">>, <<NL>> }

RECURSIVE Flatten(_)
Flatten(ps) == IF ps = <<>> THEN <<>> ELSE Head(ps) \o Flatten(Tail(ps))

\* bound: the pieces of the text and of the address of a link
MaxLinkPieces == 1

PLACEHOLDERS == <<"%%TABLEBLOCK0%%", "%%TABLEBLOCK1%%", "%%TABLEBLOCK2%%",
                  "%%TABLEBLOCK3%%", "%%TABLEBLOCK4%%", "%%TABLEBLOCK5%%">>

\* An escape that lets ">" through.
escape_html_keeps_gt(text) ==
    [i \in 1..Len(text) |-> IF text[i] = "<" THEN "&lt;" ELSE text[i]]

\* escape_html, lines 508-513
escape_html(text) ==
    [i \in 1..Len(text) |->
        CASE text[i] = "&" -> "&amp;"
          [] text[i] = "<" -> "&lt;"
          [] text[i] = ">" -> "&gt;"
          [] OTHER -> text[i]]

\* the first index from i on where the character is in chars, 0 if none
RECURSIVE Find(_, _, _)
Find(t, i, chars) ==
    IF i > Len(t) THEN 0 ELSE IF t[i] \in chars THEN i ELSE Find(t, i + 1, chars)

\* str.strip("|")
RECURSIVE StripPipes(_)
StripPipes(l) ==
    IF l # <<>> /\ Head(l) = "|" THEN StripPipes(Tail(l))
    ELSE IF l # <<>> /\ l[Len(l)] = "|" THEN StripPipes(SubSeq(l, 1, Len(l) - 1))
    ELSE l

\* normalize_cell, lines 537-543: the backticks are removed
normalize_cell(value) == SelectSeq(value, LAMBDA c : c # BQ)

\* lines 546-550: the cells of one line of the table
table_row(line) ==
    LET cells == Split(StripPipes(RStrip(LStrip(line))), <<"|">>)
    IN  [k \in 1..Len(cells) |-> normalize_cell(cells[k])]

RECURSIVE MaxOf(_)
MaxOf(ns) == IF ns = <<>> THEN 0
             ELSE LET m == MaxOf(Tail(ns)) IN IF Head(ns) > m THEN Head(ns) ELSE m

Spaces(n) == [i \in 1..n |-> " "]

RECURSIVE JoinWith(_, _)
JoinWith(parts, sep) ==
    IF parts = <<>> THEN <<>>
    ELSE IF Len(parts) = 1 THEN parts[1]
    ELSE parts[1] \o sep \o JoinWith(Tail(parts), sep)

\* wrap_table, lines 533-575: the rows padded to the widths of the columns,
\* every cell escaped, the whole in <pre>
wrap_table(lines) ==
    LET rows == [r \in 1..Len(lines) |-> table_row(lines[r])]
        cols_count == MaxOf([r \in 1..Len(rows) |-> Len(rows[r])])
        cell(r, c) == IF c <= Len(rows[r]) THEN rows[r][c] ELSE <<>>
        width(c) == MaxOf([r \in 1..Len(rows) |-> Len(cell(r, c))])
        padded(r, c) == escape_html(cell(r, c) \o Spaces(width(c) - Len(cell(r, c))))
        aligned(r) == JoinWith([c \in 1..cols_count |-> padded(r, c)], <<" ", "|", " ">>)
    IN  <<"<pre>">> \o JoinWith([r \in 1..Len(rows) |-> aligned(r)], <<NL>>)
        \o <<"</pre>">>

\* table_pattern, line 578: a line that starts and ends with "|" around at
\* least one character
IsTableLine(line) == Len(line) >= 3 /\ Head(line) = "|" /\ line[Len(line)] = "|"

\* line 579: every run of table lines, with the line break after it, becomes
\* a placeholder; out is the text so far, blocks the tables so far, run
\* the table lines of the run in progress
RECURSIVE tables(_, _, _, _)
tables(lines, out, blocks, run) ==
    LET closed == IF run = <<>> THEN [out |-> out, blocks |-> blocks]
                  ELSE [out |-> Append(out, PLACEHOLDERS[Len(blocks) + 1]),
                        blocks |-> Append(blocks, wrap_table(run))]
    IN  IF lines = <<>> THEN closed
        ELSE IF IsTableLine(Head(lines))
        THEN tables(Tail(lines), out, blocks, Append(run, Head(lines)))
        ELSE tables(Tail(lines),
                    closed.out \o Head(lines) \o (IF Len(lines) > 1 THEN <<NL>> ELSE <<>>),
                    closed.blocks, <<>>)

IsFence(t, i) == i + 2 <= Len(t) /\ t[i] = BQ /\ t[i + 1] = BQ /\ t[i + 2] = BQ

\* the first closing fence from i on, 0 if none
RECURSIVE FindFence(_, _)
FindFence(t, i) ==
    IF i + 2 > Len(t) THEN 0 ELSE IF IsFence(t, i) THEN i ELSE FindFence(t, i + 1)

\* lines 588-601: the language, an optional line break, the code
RECURSIVE WordPrefix(_)
WordPrefix(t) == IF t # <<>> /\ Head(t) = "a" THEN <<"a">> \o WordPrefix(Tail(t)) ELSE <<>>

code_block(content) ==
    LET lang == WordPrefix(content)
        rest == SubSeq(content, Len(lang) + 1, Len(content))
        body == IF rest # <<>> /\ Head(rest) = NL THEN Tail(rest) ELSE rest
        code == escape_html(RStrip(body))
    IN  IF lang # <<>>
        THEN <<"<pre><code class=\"language-">> \o lang \o <<"\">">> \o code
             \o <<"</code></pre>">>
        ELSE <<"<pre>">> \o code \o <<"</pre>">>

\* lines 602-606
inline_code(content) == <<"<code>">> \o escape_html(content) \o <<"</code>">>

\* lines 631-637: [text](url) in the escaped fragment, leftmost first
RECURSIVE links(_, _, _)
links(f, i, start) ==
    IF i > Len(f) THEN SubSeq(f, start, Len(f))
    ELSE LET r == IF f[i] = "[" THEN Find(f, i + 1, {"]"}) ELSE 0
             c == IF r >= i + 2 /\ r + 1 <= Len(f) /\ f[r + 1] = "("
                  THEN Find(f, r + 2, {")"}) ELSE 0
         IN  IF c >= r + 3 /\ r > 0
             THEN SubSeq(f, start, i - 1) \o <<"<a href=\"">> \o SubSeq(f, r + 2, c - 1)
                  \o <<"\">">> \o SubSeq(f, i + 1, r - 1) \o <<"</a>">>
                  \o links(f, c + 1, c + 1)
             ELSE links(f, i + 1, start)

\* lines 607-639: the text outside code is escaped, then formatted
plain(fragment) == links(escape_html(fragment), 1, 1)

\* lines 583-606: the text is cut at the fenced blocks and the inline code
RECURSIVE code_parts(_, _, _)
code_parts(t, i, start) ==
    IF i > Len(t) THEN plain(SubSeq(t, start, Len(t)))
    ELSE LET j == IF IsFence(t, i) THEN FindFence(t, i + 3) ELSE 0
             k == IF t[i] = BQ THEN Find(t, i + 1, {BQ, NL}) ELSE 0
         IN  IF j > 0
             THEN plain(SubSeq(t, start, i - 1)) \o code_block(SubSeq(t, i + 3, j - 1))
                  \o code_parts(t, j + 3, j + 3)
             ELSE IF k >= i + 2 /\ t[k] = BQ
             THEN plain(SubSeq(t, start, i - 1)) \o inline_code(SubSeq(t, i + 1, k - 1))
                  \o code_parts(t, k + 1, k + 1)
             ELSE code_parts(t, i + 1, start)

\* lines 641-644: the placeholders are replaced by the tables
RECURSIVE restore(_, _)
restore(tokens, blocks) ==
    IF tokens = <<>> THEN <<>>
    ELSE (IF \E m \in 1..Len(blocks) : PLACEHOLDERS[m] = Head(tokens)
          THEN blocks[CHOOSE m \in 1..Len(blocks) : PLACEHOLDERS[m] = Head(tokens)]
          ELSE <<Head(tokens)>>)
         \o restore(Tail(tokens), blocks)

\* format_for_telegram, lines 516-644
format_for_telegram(text) ==
    IF text = <<>> THEN <<>>
    ELSE LET tb == tables(Split(text, <<NL>>), <<>>, <<>>, <<>>)
         IN  restore(code_parts(tb.out, 1, 1), tb.blocks)

FormatForTelegram(text) ==
    /\ call' = [fn |-> "format_for_telegram", text |-> text,
                result |-> format_for_telegram(text)]
    /\ UNCHANGED programVars

\* the texts of up to MaxPieces pieces
FormatText ==
    /\ call = NoCall
    /\ \E n \in 0..MaxPieces : \E ps \in [1..n -> Pieces] :
          FormatForTelegram(Flatten(ps))

\* the links whose text and address have up to MaxLinkPieces pieces each
FormatLink ==
    /\ call = NoCall
    /\ \E n \in 0..MaxLinkPieces, m \in 0..MaxLinkPieces :
          \E t \in [1..n -> Pieces], url \in [1..m -> Pieces] :
             FormatForTelegram(<<"[">> \o Flatten(t) \o <<"]", "(">> \o Flatten(url)
                               \o <<")">>)

NextFormat ==
    \/ FormatText
    \/ FormatLink

SpecFormat == Init /\ [][NextFormat]_vars

(* ======================= the claims, C21 to C30 ======================= *)
ActiveImage == user_data.active_image
EditModes == {"awaiting_edit_photo", "awaiting_edit_prompt"}

\* C21 as claimed: while an active image is present no edit is pending.
C21_ActiveImageNoEdit == ActiveImage # NoImage => Mode \notin EditModes

\* C21, amended: the active image and the edit modes do not constrain each
\* other: a step that enters an edit mode leaves the active image as it is, and
\* the only step that stores an active image, the success of a button-triggered
\* analysis, leaves the mode as it is.
C21_ActiveImageIndependentOfEdit ==
    /\ [][(Mode \notin EditModes /\ user_data'.mode \in EditModes)
             => user_data'.active_image = ActiveImage]_vars
    /\ [][(user_data'.active_image # ActiveImage /\ user_data'.active_image # NoImage)
             => /\ Returns("analyze_call")
                /\ last'.ok
                /\ user_data'.mode = Mode]_vars

\* a photo is analysed, then a photo with the bare caption "r" arrives
C21_Witness ==
    /\ ActiveImage # NoImage
    /\ Mode = "awaiting_edit_prompt"
    /\ PhotoTask # NoTask
    /\ last.act = "photo_stored"

Sending == call.fn = "send_with_retry"
Attempts == Len(call.outcomes)
Retried == TransientCodes \cup {"empty", "timeout"}

\* C22 as claimed: an exception that carries no 429/503/500 indicator (a
\* timeout is one) is raised at once, never retried.
C22_NoIndicatorRaisedAtOnce ==
    Sending =>
        \A i \in 1..Attempts :
            call.outcomes[i] \in {"error", "timeout"}
                => call.status = "raised" /\ i = Attempts

\* C22, amended: send_with_retry makes at most 3 attempts; an exception that is
\* neither a timeout nor carries a 429/503/500 indicator is raised at once; an
\* empty response, a timeout or an exception with an indicator is retried while
\* attempts remain, after a wait of 2 s (3 s times the attempt number for an
\* indicator); after the third failure the last error is raised; only a
\* response with text is returned.
C22_SendWithRetry ==
    Sending =>
        /\ Attempts <= MAX_RETRIES + 1
        /\ \A i \in 1..Attempts :
              /\ call.outcomes[i] \in {"text", "error"} => i = Attempts
              /\ i < Attempts =>
                    /\ call.outcomes[i] \in Retried
                    /\ call.waits[i] = IF call.outcomes[i] \in TransientCodes
                                       THEN 3 * i ELSE 2
        /\ call.status = "sending" =>
              /\ Attempts <= MAX_RETRIES
              /\ Len(call.waits) = Attempts
        /\ call.status # "sending" =>
              /\ Len(call.waits) = Attempts - 1
              /\ call.result = call.outcomes[Attempts]
        /\ call.status = "returned" <=> (Attempts > 0 /\ call.outcomes[Attempts] = "text")
        /\ call.status = "raised" =>
              \/ call.result = "error"
              \/ call.result \in Retried /\ Attempts = MAX_RETRIES + 1

\* a timeout, then a 503, then an empty response: raised after two waits
C22_Witness ==
    /\ Sending
    /\ call.status = "raised"
    /\ call.outcomes = <<"timeout", "503", "empty">>
    /\ call.waits = <<2, 6>>

\* positions in which a one-shot collaborator call is outstanding
OneShotCalls == {"translate_call", "translate_mode_call", "youtube_call",
                 "image_gen_call", "reply_photo_call", "photo_edit_call",
                 "doc_call", "photo_translate_call", "photo_ocr_call",
                 "edit_prompt_call", "analyze_call"}

\* C23 as claimed: a one-shot call is made once and, whatever it does, no other
\* collaborator call follows it for the same update.
C23_OneShotCallEndsHandler ==
    [][(pc \in OneShotCalls /\ last' # last) => pc' = "idle"]_vars

\* C23, amended: no one-shot call is issued again, and the handler ends when a
\* one-shot call returns or fails, with one exception: when the in-place
\* translation of a photo in translate mode fails, the failure is logged and a
\* second, different call (read the text and translate it) is made once; the
\* handler ends whatever that second call does. A failure logs one error.
C23_OneShotCallOnceButOcrFallback ==
    [][(pc \in OneShotCalls /\ last' # last)
         => /\ IF pc = "photo_translate_call" /\ ~last'.ok
               THEN pc' = "photo_ocr_call"
               ELSE pc' = "idle"
            /\ Len(last'.logged) = IF last'.ok \/ pc = "youtube_call" THEN 0 ELSE 1]_vars

\* the fallback was made after the failed translation, and failed too
C23_Witness ==
    /\ pc = "idle"
    /\ last.act = "photo_ocr_done"
    /\ ~last.ok
    /\ last.pre_mode = "translate"

FailingCalls == {"translate_mode_call", "translate_call", "youtube_call",
                 "image_gen_call", "reply_photo_call", "doc_call", "chat_call"}

\* C24: when the collaborator call of translate-mode consumption, of a
\* shorthand with argument, of a reply to a photo, of a document analysis or
\* of a chat turn fails, the handler ends normally and the session (mode,
\* photo task, active image, conversation handle) is what it was just before
\* the call was issued.
C24_FailedCallKeepsSession ==
    [][(pc \in FailingCalls /\ last' # last /\ ~last'.ok)
         => /\ user_data' = user_data
            /\ pc' = "idle"]_vars

\* a translation in translate mode failed: the mode is still set
C24_Witness ==
    /\ pc = "idle"
    /\ last.act = "translate_mode_done"
    /\ ~last.ok
    /\ Mode = "translate"

ImageRemoved == ActiveImage # NoImage /\ user_data'.active_image = NoImage
TaskRemoved == PhotoTask # NoTask /\ user_data'.photo_task = NoTask
HandleReplaced == user_data'.chat_session # user_data.chat_session
ImageAge == now - ActiveImage.timestamp
TaskAge == now - PhotoTask.timestamp

\* C25: the handle is replaced only by a reset or because lastActivity is more
\* than 300 s back (or there is none yet), the photo task expires only by its
\* own 180 s, and the active image is removed only by a reset or because it is
\* itself more than 300 s old: it survives the recreation of the handle.
C25_IndependentClocks ==
    [][/\ HandleReplaced => (last'.act = "start" \/ Expired(user_data))
       /\ (TaskRemoved /\ last'.branch = "expired") => TaskAge > 180
       /\ ImageRemoved => (last'.act = "start" \/ ImageAge > 300)]_vars

\* bot_stats before a step: none logged yet, and a full ring
SomeStats == {NoStats,
              [errors_count |-> 12,
               last_errors |-> [i \in 1..10 |-> IF i < 6 THEN "API" ELSE "VOICE"]]}
NothingLogged == \A stats \in SomeStats : log_errors(stats, last'.logged) = stats
TaskNotFound == PhotoTask = NoTask \/ TaskAge > 180
MissingFlush(id) ==
    /\ tasks[id].pc = "sleep"
    /\ tasks[id].group \notin DOMAIN pending_albums
    /\ id \notin DOMAIN tasks'

\* C26, amended: a button press that finds the photo task missing or older
\* than 180 s, an edit prompt that finds it missing, a flush that finds no
\* album, and a chat turn that finds the active image older than 300 s log no
\* error (errors_count and the ring are what they were) and issue no
\* collaborator call for the missing thing: the first three end there, the
\* chat turn goes on without the image.  The edit prompt does not look at the
\* age of the task: it edits the photos of a task of any age.
C26_NotFoundIsNoErrorPromptAnyAge ==
    /\ [][(pc = "idle" /\ last'.act = "button_callback" /\ nextId' = nextId + 1
             /\ TaskNotFound)
            => /\ NothingLogged
               /\ last'.branch \in {"missing", "expired"}
               /\ pc' = "idle"]_vars
    /\ [][(Dispatched /\ Mode = "awaiting_edit_prompt")
            => IF PhotoTask = NoTask
               THEN NothingLogged /\ pc' = "idle"
               ELSE /\ pc' = "edit_prompt_call"
                    /\ loc'.photos = PhotoTask.photos
                    /\ user_data' = user_data]_vars
    /\ [][\A id \in DOMAIN tasks :
              MissingFlush(id) => last' = last /\ pc' = pc /\ tasks' = Drop(tasks, id)]_vars
    /\ [][(Dispatched /\ last'.step = 6 /\ ActiveImage # NoImage /\ ImageAge > 300)
            => /\ NothingLogged
               /\ pc' = "chat_thinking"
               /\ loc'.image = NoImage]_vars

\* C26 as claimed: a button press or an edit prompt that finds the photo task
\* missing or older than 180 s, a flush that finds no album, and a chat turn
\* that finds the active image older than 300 s log no error and issue no
\* collaborator call for the missing thing.
C26_NotFoundIsNoError ==
    /\ [][(pc = "idle" /\ last'.act = "button_callback" /\ nextId' = nextId + 1
             /\ TaskNotFound)
            => /\ NothingLogged
               /\ last'.branch \in {"missing", "expired"}
               /\ pc' = "idle"]_vars
    /\ [][(Dispatched /\ Mode = "awaiting_edit_prompt" /\ TaskNotFound)
            => /\ NothingLogged
               /\ pc' = "idle"]_vars
    /\ [][\A id \in DOMAIN tasks :
              MissingFlush(id) => last' = last /\ pc' = pc /\ tasks' = Drop(tasks, id)]_vars
    /\ [][(Dispatched /\ last'.step = 6 /\ ActiveImage # NoImage /\ ImageAge > 300)
            => /\ NothingLogged
               /\ pc' = "chat_thinking"
               /\ loc'.image = NoImage]_vars

\* a button pressed more than 180 s after its photo: nothing logged, no call
C26_Witness ==
    /\ last.act = "button_callback"
    /\ last.branch = "expired"
    /\ last.logged = <<>>
    /\ pc = "idle"
    /\ PhotoTask = NoTask

\* C27: a flush that finds no album under its group id changes no album, no
\* session field, no button and hands nothing over; it only ends, and so does
\* every further flush of that id.
C27_MissingFlushIsNoOp ==
    [][\A id \in DOMAIN tasks :
          MissingFlush(id)
              => /\ tasks' = Drop(tasks, id)
                 /\ UNCHANGED <<user_data, pending_albums, pc, loc, buttons,
                                chats_created, last, frags, deliveries>>]_vars

\* two flushes of a group that never had an album have run: nothing is left of
\* them
C27_Witness ==
    /\ scheduled["g1"] = 2
    /\ frags = <<>>
    /\ tasks = <<>>
    /\ deliveries = <<>>
    /\ pending_albums = <<>>
    /\ user_data.photo_task = NoTask
    /\ buttons = {}

\* C28: every album of the map holds 1 to 10 photos, the first ten fragments
\* stored since the album was created, and every flush hands over 1 to 10.
C28_AlbumHoldsOneToTen ==
    /\ \A g \in DOMAIN pending_albums :
          /\ Len(pending_albums[g].photos) \in 1..MAX_ALBUM_PHOTOS
          /\ pending_albums[g].photos =
                Capped(FragIds(g, PrevAt(g, Len(deliveries) + 1), Len(frags)))
    /\ \A k \in 1..Len(deliveries) :
          Len(deliveries[k].photos) \in 1..MAX_ALBUM_PHOTOS

\* eleven fragments were stored before the flush: ten were handed over
C28_Witness ==
    /\ Len(frags) = 11
    /\ Len(deliveries) = 1
    /\ deliveries[1].at = 11
    /\ deliveries[1].photos = [i \in 1..10 |-> i]

Splitting == call.fn = "split_message"
RECURSIVE Concat(_)
Concat(parts) == IF parts = <<>> THEN <<>> ELSE Head(parts) \o Concat(Tail(parts))
\* a text without its separators: the characters that are not white space
Content(s) == SelectSeq(s, LAMBDA c : c \notin Whitespace)

\* C29: for a text longer than max_length, the chunks of split_message hold,
\* separators apart, as many characters as the text, and they are the text
\* when joined again: in order, chunk after chunk, the characters of the text.
C29_SplitLosesNothing ==
    (Splitting /\ Len(call.text) > call.max_length) =>
        /\ Len(Content(Concat(call.parts))) = Len(Content(call.text))
        /\ Content(Concat(call.parts)) = Content(call.text)

\* C30: no chunk of split_message(text, max_length) is longer than max_length,
\* whatever the text: short paragraphs are packed, a long paragraph goes line
\* by line, a long line is cut every max_length characters.
C30_ChunksWithinMaxLength ==
    Splitting =>
        \A i \in 1..Len(call.parts) : Len(call.parts[i]) <= call.max_length

\* a paragraph of a short line and a line longer than max_length
C30_Witness ==
    /\ Splitting
    /\ call.max_length = 3
    /\ call.text = <<"a", NL, "b", "b", "b", "b">>
    /\ call.parts = << <<"b", "b", "b">>, <<"b">>, <<"a">> >>

(* ======================= the claims, C31 to C40 ======================= *)
\* C31: a text no longer than max_length comes back as one chunk, the text
\* itself, white space at its ends included.
C31_ShortTextIsOneChunk ==
    (Splitting /\ Len(call.text) <= call.max_length) => call.parts = <<call.text>>

\* a text of three characters with white space at both ends, max_length 3
C31_Witness ==
    /\ Splitting
    /\ call.max_length = 3
    /\ call.text = <<" ", "a", NL>>
    /\ call.parts = << <<" ", "a", NL>> >>

\* C38: for a text longer than max_length no chunk of split_message is empty.
C38_NoEmptyChunk ==
    (Splitting /\ Len(call.text) > call.max_length) =>
        \A i \in 1..Len(call.parts) : call.parts[i] # <<>>

\* C39: after any sequence of log_error calls the error buffer holds at most
\* ten entries, they are the most recent ones in call order, and errors_count
\* is the number of calls made.
C39_ErrorBufferKeepsLastTen ==
    call.fn = "log_error" =>
        LET n == Len(call.history)
            kept == IF n > 10 THEN 10 ELSE n
        IN  /\ Len(call.stats.last_errors) <= 10
            /\ call.stats.last_errors = SubSeq(call.history, n - kept + 1, n)
            /\ call.stats.errors_count = n

\* twelve calls: the two oldest errors are gone
C39_Witness ==
    /\ call.fn = "log_error"
    /\ call.history = <<"API", "API", "VOICE", "VOICE", "VOICE", "VOICE",
                        "VOICE", "VOICE", "VOICE", "VOICE", "VOICE", "API">>
    /\ call.stats.errors_count = 12
    /\ call.stats.last_errors = <<"VOICE", "VOICE", "VOICE", "VOICE", "VOICE",
                                  "VOICE", "VOICE", "VOICE", "VOICE", "API">>

\* C40: after every log_activity call the activity log holds only entries of
\* the current day, at most 500 of them, and they are the most recent
\* entries appended, unchanged and in append order.
Logged == call.fn = "log_activity" /\ call.history # <<>>

Today(entries, clock) ==
    SelectSeq(entries, LAMBDA a : a.timestamp >= get_day_start(clock))

LastOf(entries, n) ==
    IF Len(entries) > n THEN SubSeq(entries, Len(entries) - n + 1, Len(entries))
    ELSE entries

GetsOrCreates == (ChatSends /\ loc.image = NoImage) \/ VoiceSends

Live == user_data.chat_session # NoChat /\ (now - user_data.last_activity) <= 300

Touched == /\ user_data' = [user_data EXCEPT !.last_activity = now]
           /\ chats_created' = chats_created

FullyReset == /\ user_data'.chat_session = chats_created'
              /\ chats_created' = chats_created + 1
              /\ user_data'.last_activity = now
              /\ user_data'.mode = "none"
              /\ user_data'.active_image = NoImage
              /\ user_data'.model = user_data.model
              /\ user_data'.image_model = user_data.image_model
              /\ user_data'.photo_task = user_data.photo_task

ImageWritten ==
    /\ user_data'.active_image # NoImage
    /\ user_data'.active_image # user_data.active_image

MultimodalTurn ==
    \/ (ChatSends /\ loc.image # NoImage)
    \/ (Returns("chat_call") /\ loc.image # NoImage)

C36_ImageTimestampNeverRefreshed ==
    /\ [][ImageWritten =>
             /\ pc = "analyze_call"
             /\ last'.act = "analyze_done" /\ last'.ok
             /\ user_data'.active_image.timestamp = now]_vars
    /\ [][MultimodalTurn =>
             user_data' = user_data /\ chats_created' = chats_created]_vars
    /\ [][(Dispatched /\ last'.step = 6 /\ ActiveImage # NoImage
              /\ (now - user_data.active_image.timestamp) > 300) =>
             loc'.image = NoImage /\ user_data'.active_image = NoImage]_vars

\* a chat turn has used the image 200 s after the analysis and has ended:
\* the image keeps the time of the analysis and no handle was created
C36_Witness ==
    /\ last.act = "chat_call"
    /\ last.ok
    /\ last.step = 6
    /\ last.pre_image
    /\ pc = "idle"
    /\ ActiveImage # NoImage
    /\ user_data.active_image.timestamp = now - 200
    /\ user_data.chat_session = NoChat

\* C35: the pending photo task is one slot.  A photo or a flushed album that
\* is stored replaces what the slot held, and a press on the button of any
\* message works on the task in the slot at that moment: the message the
\* button belongs to is not compared with the task's message.
StoringBranches == {"menu", "await_edit", "edit_noprompt"}

PhotoStored == pc = "photo_dl" /\ pc' = "idle" /\ loc.branch \in StoringBranches

AlbumStored ==
    /\ Len(deliveries') = Len(deliveries) + 1
    /\ deliveries'[Len(deliveries')].branch \in StoringBranches

Pressed == pc = "idle" /\ nextId' = nextId + 1 /\ last'.act = "button_callback"

EditCompletes == Returns("edit_prompt_call")

NewerTask == PhotoTask # NoTask /\ PhotoTask.message_id # loc.msg

FlushSetMode ==
    \E k \in 1..Len(deliveries) :
        /\ deliveries[k].photos = PhotoTask.photos
        /\ deliveries[k].branch \in {"await_edit", "edit_noprompt"}

C33_EditCompletionKeepsNewerTask ==
    [][(EditCompletes /\ NewerTask) =>
          /\ user_data'.photo_task = PhotoTask
          /\ FlushSetMode => user_data'.mode = Mode]_vars

\* C37: an update of a user who fails check_access changes no field of the
\* user's session, creates and extends no album buffer, starts no flush task
\* and leaves no handler waiting for a collaborator, whichever handler takes it.
Denied == User # ADMIN_ID /\ User \notin allowed_users

UpdateArrives == pc = "idle" /\ nextId' = nextId + 1

C37_DeniedUserChangesNothing ==
    [][(UpdateArrives /\ Denied) =>
          /\ user_data' = user_data
          /\ pending_albums' = pending_albums
          /\ tasks' = tasks
          /\ scheduled' = scheduled
          /\ chats_created' = chats_created
          /\ buttons' = buttons
          /\ pc' = "idle"]_vars

\* the user stored a photo and got the Edit prompt, was removed from the
\* allow-list, and then sent a text: the edit is not started
C37_Witness ==
    /\ Denied
    /\ last.act = "handle_message"
    /\ last.branch = "denied"
    /\ last.pre_mode = "awaiting_edit_prompt"
    /\ last.pre_task
    /\ Mode = "awaiting_edit_prompt"
    /\ PhotoTask # NoTask
    /\ pc = "idle"

\* C32: whatever the input of format_for_telegram, its "<" and ">" reach the
\* output as the entities &lt; and &gt; only, in a table cell, a fenced code
\* block, inline code, plain text, the text of a link and its address: the
\* angle brackets of the output are those of the tags the formatter writes.
Formatting == call.fn = "format_for_telegram"

Brackets(s) == Len(SelectSeq(s, LAMBDA c : c \in {"<", ">"}))
Entities(s) == Len(SelectSeq(s, LAMBDA c : c \in {"&lt;", "&gt;"}))

C32_AngleBracketsEscaped ==
    Formatting =>
        /\ \A i \in 1..Len(call.result) : call.result[i] \notin {"<", ">"}
        /\ Entities(call.result) <= Brackets(call.text)

\* a link whose text and address hold angle brackets
C32_Witness ==
    /\ Formatting
    /\ call.text = <<"[", "<", "]", "(", ">", ")">>
    /\ call.result = <<"<a href=\"", "&gt;", "\">", "&lt;", "</a>">>

====
